---- MODULE Spec2Model ----
(***************************************************************************)
(* Model of the per-channel shift operator of torchshifts:                 *)
(*   csrc/kernels/shifts_kernels.h  index resolution, sampling, kernels    *)
(*   csrc/cuda/shifts_cuda.cu       CPU/GPU entry points and dispatch      *)
(* Scalars (scalar_t) are kept as exact fixed-point numbers: the integer x *)
(* stands for the real x / One.  Index arithmetic uses C++ semantics       *)
(* (truncating / and %).                                                   *)
(***************************************************************************)
EXTENDS Integers, Sequences, FiniteSets, TLC

VARIABLES pc,              \* position of the modelled call
          idx, len, mode, ret,   \* one call of infer_index: arguments and result
          nD,                    \* template parameter nD / kSpatialDim (1, 2 or 3)
          sizes,                 \* input.sizes(): [N, C, H, W, D], 1 beyond the rank
          input_strides,         \* input.strides(): [sN, sC, sH, sW, sD]
          input,                 \* the input buffer, offset -> scalar
          weights,               \* the weights buffer (C x nD, contiguous)
          padding_mode, active_flag,
          iweights, dweights,    \* integer / fractional parts of the weights
          output,                \* the output buffer (contiguous), offset -> scalar
          pos,                   \* per parallel_for thread: next index of its chunk
          resolved_out_of_range, \* some infer_index call so far got an index
                                 \* outside [0, len)
          grad, grad_strides,    \* backward: the upstream gradient and its strides
          out_grad,              \* backward: the input gradient (contiguous)
          weights_grad,          \* backward: the shift gradient (C x nD, contiguous)
          dshifts3_lands,        \* what the build placed right after dshifts[3]
          q_zero_point, q_weights_zero_point,  \* quantized kernels: the zero points
          writers,               \* per offset of the result buffer: the work items
                                 \* (linear indices) that stored to it so far
          calls_made,              \* the calls the caller made before the current one
          alerted,                 \* the current call has raised the non-determinism alert
          k32_index,               \* 32-bit kernel: the linear index of the work item
          k32_coord,               \* 32-bit kernel: its coordinate i on axis 1
          k32_shift,               \* 32-bit kernel: the integer shift of its channel
          k32_corner,              \* 32-bit kernel: the sample followed (i_shifted + corner)
          k32_overflowed           \* 32-bit kernel: a signed value left the index type

vars == <<pc, idx, len, mode, ret,
          nD, sizes, input_strides, input, weights, padding_mode, active_flag,
          iweights, dweights, output, pos, resolved_out_of_range,
          grad, grad_strides, out_grad, weights_grad, dshifts3_lands,
          q_zero_point, q_weights_zero_point, writers, calls_made, alerted,
          k32_index, k32_coord, k32_shift, k32_corner, k32_overflowed>>

idxVars == <<idx, len, mode, ret>>
callVars == <<nD, sizes, input_strides, input, weights, padding_mode, active_flag>>
fwdVars == <<nD, sizes, input_strides, input, weights, padding_mode, active_flag,
             iweights, dweights, output, pos, resolved_out_of_range>>
bwdVars == <<grad, grad_strides, out_grad, weights_grad, dshifts3_lands>>
qVars == <<q_zero_point, q_weights_zero_point>>
seqVars == <<calls_made, alerted>>
k32Vars == <<k32_index, k32_coord, k32_shift, k32_corner, k32_overflowed>>

----------------------------------------------------------------------------
(* Bounds of the model *)

MaxIdx == 20
MaxLen == 5

----------------------------------------------------------------------------
(* enum class BIPadding {Zeros, Border, Periodic, Reflect, Symmetric} *)

Zeros == 0
Border == 1
Periodic == 2
Reflect == 3
Symmetric == 4
BIPadding == {Zeros, Border, Periodic, Reflect, Symmetric}

----------------------------------------------------------------------------
(* C++ integer arithmetic: / and % truncate toward zero (divisor > 0 here) *)

CDiv(a, b) == IF a >= 0 THEN a \div b ELSE -((-a) \div b)
CRem(a, b) == IF a >= 0 THEN a % b ELSE -((-a) % b)

ABS(a) == IF a > 0 THEN a ELSE -a

BoolToInt(b) == IF b THEN 1 ELSE 0

mod_trunc(a, b) == CRem(a, b)

mod(a, b) == CRem(b + CRem(a, b), b)

(* the parity expression of lines 27 and 32; p is len-1 (Reflect) or len *)
odd_seq_ignoring_sign(out_index, p) == CDiv(ABS(out_index), p) % 2 = 1

odd_seq(out_index, p) ==
    (BoolToInt(out_index < 0)
       + CDiv(ABS(out_index) - BoolToInt(out_index < 0), p)) % 2 = 1

border_index_swapped(out_index, l) == IF out_index >= l THEN 0 ELSE l - 1

border_index(out_index, l) == IF out_index >= l THEN l - 1 ELSE 0

reflect_index_repeat_edge(out_index, l) ==
    IF l = 1 THEN 0
    ELSE LET m == mod(out_index, l)
         IN  IF odd_seq(out_index, l) THEN l - 1 - m ELSE m

reflect_index(out_index, l) ==
    IF l = 1 THEN 0
    ELSE LET m == mod(out_index, l - 1)
         IN  IF odd_seq(out_index, l - 1) THEN l - 1 - m ELSE m

symmetric_index_off_by_one(out_index, l) ==
    LET m == mod(out_index, l)
    IN  IF odd_seq(out_index, l) THEN l - m ELSE m

symmetric_index(out_index, l) ==
    LET m == mod(out_index, l)
    IN  IF odd_seq(out_index, l) THEN l - 1 - m ELSE m

infer_index_no_fast_path(index, l, pm) ==
    CASE pm = Zeros     -> -1
      [] pm = Border    -> border_index(index, l)
      [] pm = Periodic  -> mod(index, l)
      [] pm = Reflect   -> reflect_index(index, l)
      [] pm = Symmetric -> symmetric_index(index, l)
      [] OTHER          -> index

infer_index(index, l, pm) ==
    IF (index < l) /\ (index >= 0) THEN index
    ELSE CASE pm = Zeros     -> -1
           [] pm = Border    -> border_index(index, l)
           [] pm = Periodic  -> mod(index, l)
           [] pm = Reflect   -> reflect_index(index, l)
           [] pm = Symmetric -> symmetric_index(index, l)
           [] OTHER          -> index

----------------------------------------------------------------------------
(* Specification of one call of infer_index on arbitrary arguments *)

NoCall == [nD |-> 0]

InitIdx ==
    /\ pc = "idx_call"
    /\ idx \in -MaxIdx..MaxIdx
    /\ len \in 1..MaxLen
    /\ mode \in BIPadding
    /\ ret = 0
    /\ nD = 0 /\ sizes = NoCall /\ input_strides = NoCall
    /\ input = <<>> /\ weights = <<>> /\ padding_mode = Zeros
    /\ active_flag = FALSE /\ iweights = <<>> /\ dweights = <<>>
    /\ output = <<>> /\ pos = <<>> /\ resolved_out_of_range = FALSE
    /\ grad = <<>> /\ grad_strides = NoCall /\ out_grad = <<>> /\ weights_grad = <<>>
    /\ dshifts3_lands = "unused" /\ q_zero_point = 0 /\ q_weights_zero_point = 0
    /\ writers = <<>>
    /\ calls_made = 0
    /\ alerted = FALSE
    /\ k32_index = 0 /\ k32_coord = 0 /\ k32_shift = 0 /\ k32_corner = 0
    /\ k32_overflowed = FALSE

CallInferIndex ==
    /\ pc = "idx_call"
    /\ ret' = infer_index(idx, len, mode)
    /\ pc' = "idx_done"
    /\ UNCHANGED <<idx, len, mode>>
    /\ UNCHANGED fwdVars
    /\ UNCHANGED bwdVars
    /\ UNCHANGED qVars
    /\ UNCHANGED seqVars
    /\ UNCHANGED k32Vars
    /\ UNCHANGED writers

NextIdx == CallInferIndex

SpecIdx == InitIdx /\ [][NextIdx]_vars

----------------------------------------------------------------------------
(* Scalars: fixed point with denominator One = FracDen^3, so that weights  *)
(* with denominator FracDen blend exactly through three nested lerps.      *)

FracDen == 2
One == FracDen * FracDen * FracDen

FMul(a, b) == (a * b) \div One

(* torch::floor, torch::round (half to even), .to(torch::kLong) *)
torch_floor(x) == (x \div One) * One

torch_round(x) ==
    LET f == x \div One
        r == x - f * One
    IN  IF 2 * r < One THEN f * One
        ELSE IF 2 * r > One THEN (f + 1) * One
        ELSE IF f % 2 = 0 THEN f * One ELSE (f + 1) * One

to_kLong(x) == x \div One

(* interpolation.h: N-linear blend of the corner values *)
interp1D(v1, v2, x) == FMul(v1, One - x) + FMul(v2, x)

interp2D(v1, v2, v3, v4, x, y) ==
    interp1D(interp1D(v1, v2, x), interp1D(v3, v4, x), y)

interp3D(v1, v2, v3, v4, v5, v6, v7, v8, x, y, z) ==
    interp1D(interp2D(v1, v2, v3, v4, x, y), interp2D(v5, v6, v7, v8, x, y), z)

----------------------------------------------------------------------------
(* Tensors: sizes, strides and flat buffers *)

Numel(sz) == sz.N * sz.C * sz.H * sz.W * sz.D

ContiguousStrides(sz) ==
    [sN |-> sz.C * sz.H * sz.W * sz.D, sC |-> sz.H * sz.W * sz.D,
     sH |-> sz.W * sz.D, sW |-> sz.D, sD |-> 1]

ChannelsLastStrides(sz) ==
    [sN |-> sz.H * sz.W * sz.D * sz.C, sC |-> 1,
     sH |-> sz.W * sz.D * sz.C, sW |-> sz.D * sz.C, sD |-> sz.C]

(* strides as the dispatch functions hand them to the kernels:            *)
(* kSpatialDim < 2 ? 0 : stride(3), kSpatialDim < 3 ? 0 : stride(4)       *)
KernelStrides(rank, st) ==
    [sN |-> st.sN, sC |-> st.sC, sH |-> st.sH,
     sW |-> IF rank < 2 THEN 0 ELSE st.sW,
     sD |-> IF rank < 3 THEN 0 ELSE st.sD]

Offset(st, n, c, i, j, k) == n * st.sN + c * st.sC + i * st.sH + j * st.sW + k * st.sD

(* input.is_contiguous(ChannelsLast) || input.is_contiguous(ChannelsLast3d): *)
(* false for 3-d tensors; the dimensions are walked from the innermost of   *)
(* the channels-last order (C, then D, W, H, N) and those of size 1 skipped *)
channels_last_dim(acc, size_d, stride_d) ==
    IF size_d # 1
    THEN [ok |-> acc.ok /\ stride_d = acc.expected, expected |-> acc.expected * size_d]
    ELSE acc

is_channels_last(rank, sz, st) ==
    LET start == [ok |-> TRUE, expected |-> 1]
        afterC == channels_last_dim(start, sz.C, st.sC)
        afterD == IF rank = 3 THEN channels_last_dim(afterC, sz.D, st.sD) ELSE afterC
        afterW == channels_last_dim(afterD, sz.W, st.sW)
        afterH == channels_last_dim(afterW, sz.H, st.sH)
        afterN == channels_last_dim(afterH, sz.N, st.sN)
    IN  IF rank = 2 \/ rank = 3 THEN afterN.ok ELSE FALSE

----------------------------------------------------------------------------
(* Sampler *)

get_shifted_value_no_fill(i_shifted, sizeH, strideH, j_shifted, sizeW, strideW, k_shifted, sizeD, strideD, c, strideC, array, zero_point, pm) ==
    LET tidx_i == infer_index(i_shifted, sizeH, IF pm = Zeros THEN Border ELSE pm)
        tidx_j == infer_index(j_shifted, sizeW, IF pm = Zeros THEN Border ELSE pm)
        tidx_k == infer_index(k_shifted, sizeD, IF pm = Zeros THEN Border ELSE pm)
    IN  array.buf[array.off + tidx_i * strideH + tidx_j * strideW
                            + tidx_k * strideD + c * strideC]

get_shifted_value_positive_only(i_shifted, sizeH, strideH, j_shifted, sizeW, strideW, k_shifted, sizeD, strideD, c, strideC, array, zero_point, pm) ==
    LET tidx_i == infer_index(i_shifted, sizeH, pm)
        tidx_j == infer_index(j_shifted, sizeW, pm)
        tidx_k == infer_index(k_shifted, sizeD, pm)
    IN  IF (tidx_i > 0) /\ (tidx_j > 0) /\ (tidx_k > 0)
        THEN array.buf[array.off + tidx_i * strideH + tidx_j * strideW
                                 + tidx_k * strideD + c * strideC]
        ELSE zero_point

(* array is a pointer: a buffer and an offset into it *)
get_shifted_value(i_shifted, sizeH, strideH, j_shifted, sizeW, strideW, k_shifted, sizeD, strideD, c, strideC, array, zero_point, pm) ==
    LET tidx_i == infer_index(i_shifted, sizeH, pm)
        tidx_j == infer_index(j_shifted, sizeW, pm)
        tidx_k == infer_index(k_shifted, sizeD, pm)
    IN  IF (tidx_i >= 0) /\ (tidx_j >= 0) /\ (tidx_k >= 0)
        THEN array.buf[array.off + tidx_i * strideH + tidx_j * strideW
                                 + tidx_k * strideD + c * strideC]
        ELSE zero_point

(* the offset in array that get_shifted_value reads (line 55), -1 when it *)
(* reads nothing and returns zero_point                                   *)
get_shifted_value_offset(i_shifted, sizeH, strideH, j_shifted, sizeW, strideW, k_shifted, sizeD, strideD, c, strideC, array, pm) ==
    LET tidx_i == infer_index(i_shifted, sizeH, pm)
        tidx_j == infer_index(j_shifted, sizeW, pm)
        tidx_k == infer_index(k_shifted, sizeD, pm)
    IN  IF (tidx_i >= 0) /\ (tidx_j >= 0) /\ (tidx_k >= 0)
        THEN array.off + tidx_i * strideH + tidx_j * strideW
                       + tidx_k * strideD + c * strideC
        ELSE -1

(* the corner at offsets (a1, a2, a3) goes to slot a1 + 2*a2 + 4*a3 (0-based); *)
(* output_values is the 8-slot array as it was before the call                *)
get_shifted_values_base_first(i_shifted, sizeH, strideH, j_shifted, sizeW, strideW, k_shifted, sizeD, strideD, c, strideC, array, zero_point, pm, output_values) ==
    LET gv(a1, a2, a3) ==
            get_shifted_value(i_shifted + 1 - a1, sizeH, strideH,
                              j_shifted + a2, sizeW, strideW,
                              k_shifted + a3, sizeD, strideD,
                              c, strideC, array, zero_point, pm)
    IN  [s \in 0..7 |->
            IF s < 2 THEN gv(s % 2, 0, 0)
            ELSE IF s < 4 THEN (IF sizeW > 1 THEN gv(s % 2, 1, 0) ELSE output_values[s])
            ELSE IF sizeD > 1 THEN gv(s % 2, (s \div 2) % 2, 1) ELSE output_values[s]]

get_shifted_values(i_shifted, sizeH, strideH, j_shifted, sizeW, strideW, k_shifted, sizeD, strideD, c, strideC, array, zero_point, pm, output_values) ==
    LET gv(a1, a2, a3) ==
            get_shifted_value(i_shifted + a1, sizeH, strideH,
                              j_shifted + a2, sizeW, strideW,
                              k_shifted + a3, sizeD, strideD,
                              c, strideC, array, zero_point, pm)
    IN  [s \in 0..7 |->
            IF s < 2 THEN gv(s % 2, 0, 0)
            ELSE IF s < 4 THEN (IF sizeW > 1 THEN gv(s % 2, 1, 0) ELSE output_values[s])
            ELSE IF sizeD > 1 THEN gv(s % 2, (s \div 2) % 2, 1) ELSE output_values[s]]

compute_interpolated(v, diff_shiftH, diff_shiftW, diff_shiftD, sizeH, sizeW, sizeD) ==
    IF sizeD > 1
    THEN interp3D(v[0], v[1], v[2], v[3], v[4], v[5], v[6], v[7],
                  diff_shiftH, diff_shiftW, diff_shiftD)
    ELSE IF sizeW > 1
    THEN interp2D(v[0], v[1], v[2], v[3], diff_shiftH, diff_shiftW)
    ELSE interp1D(v[0], v[1], diff_shiftH)

(* the (index, len) pairs that the sampler passes to infer_index *)
get_shifted_value_calls(i_shifted, sizeH, j_shifted, sizeW, k_shifted, sizeD) ==
    {<<i_shifted, sizeH>>, <<j_shifted, sizeW>>, <<k_shifted, sizeD>>}

get_shifted_values_calls(i_shifted, sizeH, j_shifted, sizeW, k_shifted, sizeD) ==
    UNION {get_shifted_value_calls(i_shifted + a[1], sizeH, j_shifted + a[2], sizeW,
                                   k_shifted + a[3], sizeD) :
             a \in {b \in {0, 1} \X {0, 1} \X {0, 1} :
                       /\ (b[2] = 1 /\ b[3] = 0) => sizeW > 1
                       /\ b[3] = 1 => sizeD > 1}}

(* the corner offsets (a1, a2, a3) at which get_shifted_values calls       *)
(* get_shifted_value: slots 0, 1 always, 2, 3 if sizeW > 1, 4..7 if sizeD > 1 *)
get_shifted_values_corners(sizeH, sizeW, sizeD) ==
    {<<0, 0, 0>>, <<1, 0, 0>>}
      \cup (IF sizeW > 1 THEN {<<0, 1, 0>>, <<1, 1, 0>>} ELSE {})
      \cup (IF sizeD > 1
            THEN {<<0, 0, 1>>, <<1, 0, 1>>, <<0, 1, 1>>, <<1, 1, 1>>} ELSE {})

OutOfRangeCall(calls) == \E p \in calls : ~((p[1] < p[2]) /\ (p[1] >= 0))

----------------------------------------------------------------------------
(* Forward kernels.  Each returns the output buffer after the work item.   *)

(* a read through a pointer: past the end of the buffer the value is       *)
(* whatever the memory holds (garbage)                                     *)
ReadAt(buf, off, garbage) == IF off \in DOMAIN buf THEN buf[off] ELSE garbage

(* idx_t shifts[3] = {*(weights+c*weights_sC), 0, 0}; and the two guarded reads *)
read_shifts(weights_ptr, c, sizeW, sizeD, weights_sC, weights_sS) ==
    <<weights_ptr[c * weights_sC],
      IF sizeW > 1 THEN weights_ptr[c * weights_sC + weights_sS] ELSE 0,
      IF sizeD > 1 THEN weights_ptr[c * weights_sC + 2 * weights_sS] ELSE 0>>

ZeroVals == [s \in 0..7 |-> 0]

shift_forward_kernel_nchwd(input_ptr, output_ptr, weights_ptr, dweights_ptr, n, c, i, j, k, sizeH, sizeW, sizeD, input_s, output_s, weights_sC, weights_sS, dweights_sC, dweights_sS, pm, active) ==
    LET input_NC == [buf |-> input_ptr, off |-> n * input_s.sN + c * input_s.sC]
        output_NCHWD == n * output_s.sN + c * output_s.sC + i * output_s.sH
                          + j * output_s.sW + k * output_s.sD
        zp == 0
        shifts == read_shifts(weights_ptr, c, sizeW, sizeD, weights_sC, weights_sS)
        val ==
          IF active
          THEN LET vals_array ==
                       get_shifted_values(i - shifts[1], sizeH, input_s.sH,
                                          j - shifts[2], sizeW, input_s.sW,
                                          k - shifts[3], sizeD, input_s.sD,
                                          0, 0, input_NC, zp, pm, ZeroVals)
                   dshifts ==
                       <<dweights_ptr[c * dweights_sC],
                         IF sizeW > 1 THEN dweights_ptr[c * dweights_sC + dweights_sS]
                                      ELSE zp,
                         IF sizeD > 1 THEN dweights_ptr[c * dweights_sC + 2 * dweights_sS]
                                      ELSE zp>>
               IN  compute_interpolated(vals_array, dshifts[1], dshifts[2], dshifts[3],
                                        sizeH, sizeW, sizeD)
          ELSE get_shifted_value(i - shifts[1], sizeH, input_s.sH,
                                 j - shifts[2], sizeW, input_s.sW,
                                 k - shifts[3], sizeD, input_s.sD,
                                 0, 0, input_NC, zp, pm)
    IN  [output_ptr EXCEPT ![output_NCHWD] = val]

(* garbage: the value of a dweights read past the end of its buffer *)
shift_forward_kernel_nhwdc(input_ptr, output_ptr, weights_ptr, dweights_ptr, n, i, j, k, sizeC, sizeH, sizeW, sizeD, input_s, output_s, weights_sC, weights_sS, dweights_sC, dweights_sS, pm, active, garbage) ==
    LET input_N == [buf |-> input_ptr, off |-> n * input_s.sN]
        output_NHWD == n * output_s.sN + i * output_s.sH
                         + j * output_s.sW + k * output_s.sD
        zp == 0
        (* loop[m]: shifts[] and the output buffer after m iterations of the c loop *)
        loop[m \in 0..sizeC] ==
          IF m = 0 THEN [shifts |-> <<0, 0, 0>>, out |-> output_ptr]
          ELSE
            LET c == m - 1
                before == loop[m - 1]
                shifts ==
                    <<weights_ptr[c * weights_sC],
                      IF sizeW > 1 THEN weights_ptr[weights_sS + c * weights_sC]
                                   ELSE before.shifts[2],
                      IF sizeD > 1 THEN weights_ptr[2 * weights_sS + c * weights_sC]
                                   ELSE before.shifts[3]>>
                val ==
                  IF active
                  THEN LET vals_array ==
                               get_shifted_values(i - shifts[1], sizeH, input_s.sH,
                                                  j - shifts[2], sizeW, input_s.sW,
                                                  k - shifts[3], sizeD, input_s.sD,
                                                  c, input_s.sC, input_N, zp, pm, ZeroVals)
                       IN  compute_interpolated(
                               vals_array,
                               ReadAt(dweights_ptr, c * dweights_sC, garbage),
                               ReadAt(dweights_ptr, dweights_sS + c * dweights_sC, garbage),
                               ReadAt(dweights_ptr, 2 * dweights_sS + c * dweights_sC, garbage),
                               sizeH, sizeW, sizeD)
                  ELSE get_shifted_value(i - shifts[1], sizeH, input_s.sH,
                                         j - shifts[2], sizeW, input_s.sW,
                                         k - shifts[3], sizeD, input_s.sD,
                                         c, input_s.sC, input_N, zp, pm)
            IN  [shifts |-> shifts,
                 out |-> [before.out EXCEPT ![output_NHWD + c * output_s.sC] = val]]
    IN  loop[sizeC].out

(* the offsets of the result buffer that one work item stores to, in the *)
(* order of the stores                                                   *)
nchwd_item_writes(n, c, i, j, k, output_s) ==
    <<n * output_s.sN + c * output_s.sC + i * output_s.sH + j * output_s.sW + k * output_s.sD>>

nhwdc_item_writes(n, i, j, k, sizeC, output_s) ==
    [m \in 1..sizeC |->
        n * output_s.sN + i * output_s.sH + j * output_s.sW + k * output_s.sD
          + (m - 1) * output_s.sC]

(* w[o] is the sequence of the work items that stored to offset o of the  *)
(* result buffer, one entry per store; the last slot of w collects the    *)
(* stores that fall outside the buffer                                    *)
record_writes(w, offs, index) ==
    LET outside == Len(w)
        slot(m) == IF offs[m] + 1 \in 1..(Len(w) - 1) THEN offs[m] + 1 ELSE outside
        stores(q) == Cardinality({m \in DOMAIN offs : slot(m) = q})
    IN  [q \in DOMAIN w |-> w[q] \o [m \in 1..stores(q) |-> index]]

no_writers(sz) == [q \in 1..(Numel(sz) + 1) |-> <<>>]

(* the (index, len) pairs one work item passes to infer_index *)
forward_item_calls(weights_ptr, c, i, j, k, sizeH, sizeW, sizeD, weights_sC, weights_sS, active) ==
    LET shifts == read_shifts(weights_ptr, c, sizeW, sizeD, weights_sC, weights_sS)
    IN  IF active
        THEN get_shifted_values_calls(i - shifts[1], sizeH, j - shifts[2], sizeW,
                                      k - shifts[3], sizeD)
        ELSE get_shifted_value_calls(i - shifts[1], sizeH, j - shifts[2], sizeW,
                                     k - shifts[3], sizeD)

----------------------------------------------------------------------------
(* Calls of shiftnd_forward_cpu<nD>(input, weights, padding_mode, active_flag) *)

MaxCount == 4
MaxBatch == 2
MaxChannels == 2
MaxW == 2
NumThreads == 2

Min(a, b) == IF a < b THEN a ELSE b

Shapes(rank) ==
    {sz \in [N : 1..MaxBatch, C : 1..MaxChannels, H : 1..MaxCount,
             W : IF rank >= 2 THEN 1..MaxCount ELSE {1},
             D : IF rank >= 3 THEN 1..MaxCount ELSE {1}] :
        Numel(sz) <= MaxCount}
    \cup {[N |-> 1, C |-> 1, H |-> 2,
           W |-> IF rank >= 2 THEN 2 ELSE 1, D |-> IF rank >= 3 THEN 2 ELSE 1]}

Coords(sz) == (0..(sz.N - 1)) \X (0..(sz.C - 1)) \X (0..(sz.H - 1))
                 \X (0..(sz.W - 1)) \X (0..(sz.D - 1))

(* the logical content of the input: distinct non-zero integers *)
Content(sz, p) ==
    LET lin == Offset(ContiguousStrides(sz), p[1], p[2], p[3], p[4], p[5])
    IN  (lin + 1) * (lin + 1) * One

TensorBuffer(sz, st) ==
    [o \in 0..(Numel(sz) - 1) |->
        Content(sz, CHOOSE p \in Coords(sz) :
                        Offset(st, p[1], p[2], p[3], p[4], p[5]) = o)]

(* element at a logical coordinate of a strided buffer *)
At(buf, st, p) == buf[Offset(st, p[1], p[2], p[3], p[4], p[5])]

AbsSum(r, a) == IF a = 1 THEN ABS(r[1]) ELSE IF a = 2 THEN ABS(r[1]) + ABS(r[2])
                ELSE ABS(r[1]) + ABS(r[2]) + ABS(r[3])

(* weight rows in units of 1/FracDen; channel c adds c * step on every axis *)
WeightRows(rank) == {r \in [1..rank -> -MaxW..MaxW] : AbsSum(r, rank) <= MaxW}

WeightTensors(sizeC, rank) ==
    {[o \in 0..(sizeC * rank - 1) |->
         (r[(o % rank) + 1] + (o \div rank) * step) * FracDen * FracDen] :
       r \in WeightRows(rank), step \in {0, 1}}

(* values a read of uninitialised memory, or past the end of a buffer, may give *)
Uninitialised == {0, One + 1}

(* a torch::empty_like buffer: no element has a defined value *)
EmptyBuffer == <<>>

InitFwd ==
    /\ pc = "fwd_call"
    /\ nD \in 1..3
    /\ sizes \in Shapes(nD)
    /\ input_strides \in {ContiguousStrides(sizes), ChannelsLastStrides(sizes)}
    /\ input = TensorBuffer(sizes, input_strides)
    /\ weights \in WeightTensors(sizes.C, nD)
    /\ padding_mode \in BIPadding
    /\ active_flag \in BOOLEAN
    /\ iweights = <<>> /\ dweights = <<>> /\ output = <<>> /\ pos = <<>>
    /\ resolved_out_of_range = FALSE
    /\ idx = 0 /\ len = 1 /\ mode = Zeros /\ ret = 0
    /\ grad = <<>> /\ grad_strides = NoCall /\ out_grad = <<>> /\ weights_grad = <<>>
    /\ dshifts3_lands = "unused" /\ q_zero_point = 0 /\ q_weights_zero_point = 0
    /\ writers = <<>>
    /\ calls_made = 0
    /\ alerted = FALSE
    /\ k32_index = 0 /\ k32_coord = 0 /\ k32_shift = 0 /\ k32_corner = 0
    /\ k32_overflowed = FALSE

(* torch::zeros(input.sizes(), input.options()) is contiguous *)
output_strides == ContiguousStrides(sizes)

channels_last_path == is_channels_last(nD, sizes, input_strides)

(* at::parallel_for(0, total, 0, f): contiguous chunks, one per thread *)
parallel_total ==
    IF channels_last_path THEN sizes.N * sizes.H * sizes.W * sizes.D
    ELSE sizes.N * sizes.C * sizes.H * sizes.W * sizes.D

chunk_size == (parallel_total + NumThreads - 1) \div NumThreads
chunk_begin(t) == Min((t - 1) * chunk_size, parallel_total)
chunk_end_overlapping(t) == Min(t * chunk_size + 1, parallel_total)

chunk_end(t) == Min(t * chunk_size, parallel_total)

(* the integer part by truncation toward zero *)
split_iweights_truncating(w, active) == [o \in DOMAIN w |-> CDiv(w[o], One)]

(* (active_flag ? torch::floor(weights) : torch::round(weights)).to(torch::kLong) *)
split_iweights(w, active) ==
    [o \in DOMAIN w |->
        to_kLong(IF active THEN torch_floor(w[o]) ELSE torch_round(w[o]))]

(* empty_like(weights), overwritten by weights - floor(weights) if active_flag *)
split_dweights_forward(w, active) ==
    IF active THEN [o \in DOMAIN w |-> w[o] - torch_floor(w[o])]
    ELSE EmptyBuffer

zeros(sz) == [o \in 0..(Numel(sz) - 1) |-> 0]

(* shiftnd_forward_cpu up to the dispatch of the kernel loop *)
ForwardEntry ==
    /\ pc = "fwd_call"
    /\ output' = zeros(sizes)
    /\ iweights' = split_iweights(weights, active_flag)
    /\ dweights' = split_dweights_forward(weights, active_flag)
    /\ pos' = [t \in 1..NumThreads |-> chunk_begin(t)]
    /\ pc' = "fwd_run"
    /\ writers' = no_writers(sizes)
    /\ UNCHANGED resolved_out_of_range
    /\ UNCHANGED callVars
    /\ UNCHANGED idxVars
    /\ UNCHANGED bwdVars
    /\ UNCHANGED qVars
    /\ UNCHANGED seqVars
    /\ UNCHANGED k32Vars

(* one iteration of the channel-major loop of _shifts_forward_cpu by thread t *)
ForwardStepNCHWD(t) ==
    /\ pc = "fwd_run"
    /\ ~channels_last_path
    /\ pos[t] < chunk_end(t)
    /\ LET index == pos[t]
           sizeC == sizes.C
           sizeH == sizes.H
           sizeW == IF nD < 2 THEN 1 ELSE sizes.W
           sizeD == IF nD < 3 THEN 1 ELSE sizes.D
           k == index % sizeD
           j == (index \div sizeD) % sizeW
           i == (index \div (sizeD * sizeW)) % sizeH
           c == (index \div (sizeD * sizeW * sizeH)) % sizeC
           n == index \div (sizeD * sizeW * sizeH * sizeC)
       IN  /\ output' = shift_forward_kernel_nchwd(
                            input, output, iweights, dweights,
                            n, c, i, j, k, sizeH, sizeW, sizeD,
                            KernelStrides(nD, input_strides),
                            KernelStrides(nD, output_strides),
                            nD, 1, nD, 1, padding_mode, active_flag)
           /\ resolved_out_of_range' =
                 (resolved_out_of_range
                    \/ OutOfRangeCall(forward_item_calls(iweights, c, i, j, k,
                                          sizeH, sizeW, sizeD, nD, 1, active_flag)))
           /\ writers' = record_writes(writers,
                              nchwd_item_writes(n, c, i, j, k,
                                                KernelStrides(nD, output_strides)),
                              index)
    /\ pos' = [pos EXCEPT ![t] = pos[t] + 1]
    /\ UNCHANGED <<pc, iweights, dweights>>
    /\ UNCHANGED callVars
    /\ UNCHANGED idxVars
    /\ UNCHANGED bwdVars
    /\ UNCHANGED qVars
    /\ UNCHANGED seqVars
    /\ UNCHANGED k32Vars

(* one iteration of the channel-last loop of _shifts_forward_cpu by thread t *)
ForwardStepNHWDC(t) ==
    /\ pc = "fwd_run"
    /\ channels_last_path
    /\ pos[t] < chunk_end(t)
    /\ LET index == pos[t]
           sizeC == sizes.C
           sizeH == sizes.H
           sizeW == IF nD < 2 THEN 1 ELSE sizes.W
           sizeD == IF nD < 3 THEN 1 ELSE sizes.D
           k == index % sizeD
           j == (index \div sizeD) % sizeW
           i == (index \div (sizeD * sizeW)) % sizeH
           n == index \div (sizeD * sizeW * sizeH)
       IN  /\ \E garbage \in Uninitialised :
                 output' = shift_forward_kernel_nhwdc(
                               input, output, iweights, dweights,
                               n, i, j, k, sizeC, sizeH, sizeW, sizeD,
                               KernelStrides(nD, input_strides),
                               KernelStrides(nD, output_strides),
                               nD, 1, nD, 1, padding_mode, active_flag, garbage)
           /\ resolved_out_of_range' =
                 (resolved_out_of_range
                    \/ \E c \in 0..(sizeC - 1) :
                          OutOfRangeCall(forward_item_calls(iweights, c, i, j, k,
                                             sizeH, sizeW, sizeD, nD, 1, active_flag)))
           /\ writers' = record_writes(writers,
                              nhwdc_item_writes(n, i, j, k, sizeC,
                                                KernelStrides(nD, output_strides)),
                              index)
    /\ pos' = [pos EXCEPT ![t] = pos[t] + 1]
    /\ UNCHANGED <<pc, iweights, dweights>>
    /\ UNCHANGED callVars
    /\ UNCHANGED idxVars
    /\ UNCHANGED bwdVars
    /\ UNCHANGED qVars
    /\ UNCHANGED seqVars
    /\ UNCHANGED k32Vars

(* every chunk is exhausted: shiftnd_forward_cpu returns output *)
ForwardReturn ==
    /\ pc = "fwd_run"
    /\ \A t \in 1..NumThreads : pos[t] = chunk_end(t)
    /\ pc' = "fwd_done"
    /\ UNCHANGED <<iweights, dweights, output, pos, resolved_out_of_range>>
    /\ UNCHANGED callVars
    /\ UNCHANGED idxVars
    /\ UNCHANGED bwdVars
    /\ UNCHANGED qVars
    /\ UNCHANGED seqVars
    /\ UNCHANGED k32Vars
    /\ UNCHANGED writers

NextFwd ==
    \/ ForwardEntry
    \/ \E t \in 1..NumThreads : ForwardStepNCHWD(t)
    \/ \E t \in 1..NumThreads : ForwardStepNHWDC(t)
    \/ ForwardReturn

SpecFwd == InitFwd /\ [][NextFwd]_vars

----------------------------------------------------------------------------
(* Backward: partial derivatives of the N-linear blend (interpolation.h)   *)

interp1D_dx(v1, v2) == v2 - v1

interp2D_dx(v1, v2, v3, v4, y) == interp1D(v2 - v1, v4 - v3, y)

interp2D_dy(v1, v2, v3, v4, x) == interp1D(v3 - v1, v4 - v2, x)

interp3D_dx(v1, v2, v3, v4, v5, v6, v7, v8, y, z) ==
    interp2D(v2 - v1, v4 - v3, v6 - v5, v8 - v7, y, z)

interp3D_dy(v1, v2, v3, v4, v5, v6, v7, v8, x, z) ==
    interp2D(v3 - v1, v4 - v2, v7 - v5, v8 - v6, x, z)

interp3D_dz(v1, v2, v3, v4, v5, v6, v7, v8, x, y) ==
    interp2D(v5 - v1, v6 - v2, v7 - v3, v8 - v4, x, y)

(* output_grad is the 3-slot array as it was before the call *)
compute_weight_gradients(v, diff_shiftH, diff_shiftW, diff_shiftD, sizeH, sizeW, sizeD, output_grad) ==
    IF sizeD > 1
    THEN <<interp3D_dx(v[0], v[1], v[2], v[3], v[4], v[5], v[6], v[7],
                       diff_shiftW, diff_shiftD),
           interp3D_dy(v[0], v[1], v[2], v[3], v[4], v[5], v[6], v[7],
                       diff_shiftH, diff_shiftD),
           interp3D_dz(v[0], v[1], v[2], v[3], v[4], v[5], v[6], v[7],
                       diff_shiftH, diff_shiftW)>>
    ELSE IF sizeW > 1
    THEN <<interp2D_dx(v[0], v[1], v[2], v[3], diff_shiftW),
           interp2D_dy(v[0], v[1], v[2], v[3], diff_shiftH),
           output_grad[3]>>
    ELSE IF sizeH > 1
    THEN <<interp1D_dx(v[0], v[1]), output_grad[2], output_grad[3]>>
    ELSE output_grad

(* ADD(x, y) of global_scope.h: atomic addition of y into *x *)
ADD(buf, off, val) == [buf EXCEPT ![off] = @ + val]

(* scalar_t dshifts[3] = {*(dweights + c*dweights_sC), zp, zp}; and the    *)
(* two guarded reads                                                       *)
read_dshifts(dweights_ptr, c, sizeW, sizeD, dweights_sC, dweights_sS) ==
    <<dweights_ptr[c * dweights_sC],
      IF sizeW > 1 THEN dweights_ptr[c * dweights_sC + dweights_sS] ELSE 0,
      IF sizeD > 1 THEN dweights_ptr[c * dweights_sC + 2 * dweights_sS] ELSE 0>>

(* Backward kernels.  Each returns the input-gradient buffer (output_grad) *)
(* and the shift-gradient buffer (weights_grad) after the work item.       *)
shift_backward_kernel_nchwd(input_grad, input_ptr, output_grad, weights_ptr, dweights_ptr, weights_grad_ptr, n, c, i, j, k, sizeH, sizeW, sizeD, input_grad_s, input_s, output_grad_s, weights_sC, weights_sS, dweights_sC, dweights_sS, weights_grad_sC, weights_grad_sS, pm, active) ==
    LET input_grad_NC == [buf |-> input_grad,
                          off |-> n * input_grad_s.sN + c * input_grad_s.sC]
        input_grad_NCHWD_val ==
            input_grad[input_grad_NC.off + i * input_grad_s.sH
                         + j * input_grad_s.sW + k * input_grad_s.sD]
        input_NC == [buf |-> input_ptr, off |-> n * input_s.sN + c * input_s.sC]
        output_grad_NCHWD == n * output_grad_s.sN + c * output_grad_s.sC
                               + i * output_grad_s.sH + j * output_grad_s.sW
                               + k * output_grad_s.sD
        zp == 0
        shifts == read_shifts(weights_ptr, c, sizeW, sizeD, weights_sC, weights_sS)
        dshifts == read_dshifts(dweights_ptr, c, sizeW, sizeD, dweights_sC, dweights_sS)
        grad_vals == get_shifted_values(i - shifts[1], sizeH, input_s.sH,
                                        j - shifts[2], sizeW, input_s.sW,
                                        k - shifts[3], sizeD, input_s.sD,
                                        0, 0, input_grad_NC, zp, pm, ZeroVals)
        val ==
          IF active
          THEN compute_interpolated(grad_vals, dshifts[1], dshifts[2], dshifts[3],
                                    sizeH, sizeW, sizeD)
          ELSE get_shifted_value(i + shifts[1], sizeH, input_s.sH,
                                 j + shifts[2], sizeW, input_s.sW,
                                 k + shifts[3], sizeD, input_s.sD,
                                 0, 0, input_grad_NC, zp, pm)
        vals_array == get_shifted_values(i - shifts[1], sizeH, input_s.sH,
                                         j - shifts[2], sizeW, input_s.sW,
                                         k - shifts[3], sizeD, input_s.sD,
                                         0, 0, input_NC, zp, pm,
                                         IF active THEN grad_vals ELSE ZeroVals)
        new_weights_grad ==
            compute_weight_gradients(vals_array, dshifts[1], dshifts[2], dshifts[3],
                                     sizeH, sizeW, sizeD, <<zp, zp, zp>>)
        wg1 == ADD(weights_grad_ptr, c * weights_grad_sC,
                   FMul(input_grad_NCHWD_val, new_weights_grad[1]))
        wg2 == IF sizeW > 1
               THEN ADD(wg1, c * weights_grad_sC + weights_grad_sS,
                        FMul(input_grad_NCHWD_val, new_weights_grad[2]))
               ELSE wg1
        wg3 == IF sizeD > 1
               THEN ADD(wg2, c * weights_grad_sC + 2 * weights_grad_sS,
                        FMul(input_grad_NCHWD_val, new_weights_grad[3]))
               ELSE wg2
    IN  [output_grad |-> [output_grad EXCEPT ![output_grad_NCHWD] = val],
         weights_grad |-> wg3]

(* Line 277 stores to dshifts[3], one past the end of scalar_t dshifts[3]: *)
(* dshifts[0] keeps its initial zp, and the store lands in whatever the    *)
(* build placed there.  lands names that object: "unused" (padding, or the *)
(* store is dropped) or "_new_weights_grad" (slot 0 of that array).        *)
BuildLayouts == {"unused", "_new_weights_grad"}

shift_backward_kernel_nhwdc(input_grad, input_ptr, output_grad, weights_ptr, dweights_ptr, weights_grad_ptr, n, i, j, k, sizeC, sizeH, sizeW, sizeD, input_grad_s, input_s, output_grad_s, weights_sC, weights_sS, dweights_sC, dweights_sS, weights_grad_sC, weights_grad_sS, pm, active, lands) ==
    LET input_grad_N == [buf |-> input_grad, off |-> n * input_grad_s.sN]
        input_N == [buf |-> input_ptr, off |-> n * input_s.sN]
        output_grad_NHWD == n * output_grad_s.sN + i * output_grad_s.sH
                              + j * output_grad_s.sW + k * output_grad_s.sD
        input_grad_NHWD == input_grad_N.off + i * input_grad_s.sH
                             + j * input_grad_s.sW + k * input_grad_s.sD
        zp == 0
        (* loop[m]: the locals and the two buffers after m iterations of the c loop *)
        loop[m \in 0..sizeC] ==
          IF m = 0
          THEN [shifts |-> <<0, 0, 0>>, dshifts |-> <<zp, zp, zp>>,
                vals_array |-> ZeroVals, new_weights_grad |-> <<zp, zp, zp>>,
                og |-> output_grad, wg |-> weights_grad_ptr]
          ELSE
            LET c == m - 1
                before == loop[m - 1]
                shifts ==
                    <<weights_ptr[c * weights_sC],
                      IF sizeW > 1 THEN weights_ptr[weights_sS + c * weights_sC]
                                   ELSE before.shifts[2],
                      IF sizeD > 1 THEN weights_ptr[2 * weights_sS + c * weights_sC]
                                   ELSE before.shifts[3]>>
                past_the_end == dweights_ptr[c * dweights_sC]
                dshifts ==
                    <<before.dshifts[1],
                      IF sizeW > 1 THEN dweights_ptr[dweights_sS + c * dweights_sC]
                                   ELSE before.dshifts[2],
                      IF sizeD > 1 THEN dweights_ptr[2 * dweights_sS + c * dweights_sC]
                                   ELSE before.dshifts[3]>>
                nwg_in == IF lands = "_new_weights_grad"
                          THEN <<past_the_end, before.new_weights_grad[2],
                                 before.new_weights_grad[3]>>
                          ELSE before.new_weights_grad
                grad_vals ==
                    IF active
                    THEN get_shifted_values(i - shifts[1], sizeH, input_s.sH,
                                            j - shifts[2], sizeW, input_s.sW,
                                            k - shifts[3], sizeD, input_s.sD,
                                            c, input_grad_s.sC, input_grad_N,
                                            zp, pm, before.vals_array)
                    ELSE before.vals_array
                val ==
                    IF active
                    THEN compute_interpolated(grad_vals, dshifts[1], dshifts[2],
                                              dshifts[3], sizeH, sizeW, sizeD)
                    ELSE get_shifted_value(i + shifts[1], sizeH, input_s.sH,
                                           j + shifts[2], sizeW, input_s.sW,
                                           k + shifts[3], sizeD, input_s.sD,
                                           c, input_grad_s.sC, input_grad_N, zp, pm)
                vals_array ==
                    get_shifted_values(i - shifts[1], sizeH, input_s.sH,
                                       j - shifts[2], sizeW, input_s.sW,
                                       k - shifts[3], sizeD, input_s.sD,
                                       c, input_s.sC, input_N, zp, pm, grad_vals)
                new_weights_grad ==
                    compute_weight_gradients(vals_array, dshifts[1], dshifts[2],
                                             dshifts[3], sizeH, sizeW, sizeD, nwg_in)
                input_grad_NHWDC_val == input_grad[input_grad_NHWD + c * input_grad_s.sC]
                wg1 == ADD(before.wg, c * weights_grad_sC,
                           FMul(input_grad_NHWDC_val, new_weights_grad[1]))
                wg2 == IF sizeW > 1
                       THEN ADD(wg1, weights_grad_sS + c * weights_grad_sC,
                                FMul(input_grad_NHWDC_val, new_weights_grad[2]))
                       ELSE wg1
                wg3 == IF sizeD > 1
                       THEN ADD(wg2, 2 * weights_grad_sS + c * weights_grad_sC,
                                FMul(input_grad_NHWDC_val, new_weights_grad[3]))
                       ELSE wg2
            IN  [shifts |-> shifts, dshifts |-> dshifts,
                 vals_array |-> vals_array, new_weights_grad |-> new_weights_grad,
                 og |-> [before.og EXCEPT ![output_grad_NHWD + c * output_grad_s.sC] = val],
                 wg |-> wg3]
        final == loop[sizeC]
    IN  [output_grad |-> final.og, weights_grad |-> final.wg]

----------------------------------------------------------------------------
(* The local arrays of the kernels and the subscripts used on them, and    *)
(* the columns of the weight buffers the kernels read.                     *)

(* idx_t shifts[3], scalar_t dshifts[3], scalar_t _new_weights_grad[3],    *)
(* scalar_t _vals_array[8]                                                 *)
array_capacity(array) == IF array = "_vals_array" THEN 8 ELSE 3

guarded_axes(sizeW, sizeD) ==
    {0} \cup (IF sizeW > 1 THEN {1} ELSE {}) \cup (IF sizeD > 1 THEN {2} ELSE {})

(* the subscripts on v of compute_interpolated; those of                  *)
(* compute_weight_gradients are among them                                *)
interpolation_slots(sizeH, sizeW, sizeD) ==
    IF sizeD > 1 THEN 0..7
    ELSE IF sizeW > 1 THEN 0..3
    ELSE 0..1

(* the subscripts on output_grad of compute_weight_gradients *)
weight_gradient_slots(sizeH, sizeW, sizeD) ==
    IF sizeD > 1 THEN 0..2
    ELSE IF sizeW > 1 THEN 0..1
    ELSE IF sizeH > 1 THEN {0} ELSE {}

(* every (array, subscript) of one work item of the kernel variant *)
kernel_array_accesses(variant, backward, active, sizeH, sizeW, sizeD) ==
    LET on(array, subscripts) == {[array |-> array, index |-> x] : x \in subscripts}
        corner_slots == {b[1] + 2 * b[2] + 4 * b[3] :
                            b \in get_shifted_values_corners(sizeH, sizeW, sizeD)}
        sampled == IF backward \/ active
                   THEN on("_vals_array", corner_slots
                                            \cup interpolation_slots(sizeH, sizeW, sizeD))
                   ELSE {}
    IN  on("shifts", 0..2)
          \cup sampled
          \cup (IF backward
                THEN on("_new_weights_grad",
                        weight_gradient_slots(sizeH, sizeW, sizeD)
                          \cup guarded_axes(sizeW, sizeD))
                ELSE {})
          \cup (IF backward /\ variant = "nhwdc"
                THEN on("dshifts", {3} \cup (guarded_axes(sizeW, sizeD) \ {0}) \cup 0..2)
                ELSE IF backward \/ (active /\ variant = "nchwd")
                THEN on("dshifts", guarded_axes(sizeW, sizeD) \cup 0..2)
                ELSE {})

(* every (buffer, axis) entry of the weight buffers one work item reads *)
kernel_weight_reads(variant, backward, active, sizeW, sizeD) ==
    LET of(buffer, axes) == {[buffer |-> buffer, axis |-> x] : x \in axes}
    IN  of("weights", guarded_axes(sizeW, sizeD))
          \cup (IF backward \/ (active /\ variant = "nchwd")
                THEN of("dweights", guarded_axes(sizeW, sizeD))
                ELSE IF active THEN of("dweights", 0..2) ELSE {})

----------------------------------------------------------------------------
(* Calls of shiftnd_backward_cpu<nD>(grad, weights, input, padding_mode,   *)
(* active_flag)                                                            *)

(* the logical content of the upstream gradient: distinct non-zero integers *)
GradContent(sz, p) ==
    LET lin == Offset(ContiguousStrides(sz), p[1], p[2], p[3], p[4], p[5])
    IN  (2 * lin + 3) * One

GradBuffer(sz, st) ==
    [o \in 0..(Numel(sz) - 1) |->
        GradContent(sz, CHOOSE p \in Coords(sz) :
                            Offset(st, p[1], p[2], p[3], p[4], p[5]) = o)]

(* bounds of the backward calls: element count and weight magnitude *)
MaxCountBwd == 2
MaxWBwd == 1

(* every spatial axis of the rank has extent 2 *)
FullCube(rank) ==
    [N |-> 1, C |-> 1, H |-> 2,
     W |-> IF rank >= 2 THEN 2 ELSE 1, D |-> IF rank >= 3 THEN 2 ELSE 1]

(* two channels, and extent 2 on the last spatial axis of the rank: the   *)
(* smallest shape whose two layouts take different kernel variants         *)
TwoChannels(rank) ==
    [N |-> 1, C |-> 2, H |-> IF rank = 1 THEN 2 ELSE 1,
     W |-> IF rank = 2 THEN 2 ELSE 1, D |-> IF rank = 3 THEN 2 ELSE 1]

BwdShapes(rank) ==
    {sz \in Shapes(rank) : Numel(sz) <= MaxCountBwd}
       \cup {FullCube(rank), TwoChannels(rank)}

BwdWeightTensors(sizeC, rank) ==
    {w \in WeightTensors(sizeC, rank) :
        AbsSum([a \in 1..rank |-> w[a - 1] \div (FracDen * FracDen)], rank) <= MaxWBwd}

InitBwd ==
    /\ pc = "bwd_call"
    /\ nD \in 1..3
    /\ sizes \in BwdShapes(nD)
    /\ input_strides \in {ContiguousStrides(sizes), ChannelsLastStrides(sizes)}
    /\ input = TensorBuffer(sizes, input_strides)
    /\ grad_strides \in {ContiguousStrides(sizes), ChannelsLastStrides(sizes)}
    /\ grad = GradBuffer(sizes, grad_strides)
    /\ weights \in BwdWeightTensors(sizes.C, nD)
    /\ padding_mode \in BIPadding
    /\ active_flag \in BOOLEAN
    /\ dshifts3_lands \in (IF is_channels_last(nD, sizes, input_strides)
                           THEN BuildLayouts ELSE {"unused"})
    /\ iweights = <<>> /\ dweights = <<>> /\ output = <<>> /\ pos = <<>>
    /\ out_grad = <<>> /\ weights_grad = <<>>
    /\ resolved_out_of_range = FALSE
    /\ idx = 0 /\ len = 1 /\ mode = Zeros /\ ret = 0
    /\ q_zero_point = 0 /\ q_weights_zero_point = 0
    /\ writers = <<>>
    /\ calls_made = 0
    /\ alerted = FALSE
    /\ k32_index = 0 /\ k32_coord = 0 /\ k32_shift = 0 /\ k32_corner = 0
    /\ k32_overflowed = FALSE

(* what a pointer to buf can address: the buffer, and past its end the    *)
(* memory that follows it, whose content (garbage) is not defined.  The   *)
(* kernels index the gradient with the strides of the input, so they can  *)
(* reach up to the stride sums of both tensors past the base.             *)
Memory(buf, sz, garbage) ==
    [o \in 0..(2 * Numel(sz)) |-> IF o \in DOMAIN buf THEN buf[o] ELSE garbage]

(* torch::zeros_like(grad, LEGACY_CONTIGUOUS_MEMORY_FORMAT) is contiguous *)
out_grad_strides == ContiguousStrides(sizes)

(* weights - torch::floor(weights), whatever active_flag is *)
split_dweights_backward(w) == [o \in DOMAIN w |-> w[o] - torch_floor(w[o])]

(* the accumulator of the previous call taken over when it has the shape *)
zeros_like_reusing(w) ==
    IF DOMAIN weights_grad = DOMAIN w THEN weights_grad ELSE [o \in DOMAIN w |-> 0]

zeros_like(w) == [o \in DOMAIN w |-> 0]

(* shiftnd_backward_cpu up to the dispatch of the kernel loop *)
BackwardEntry ==
    /\ pc = "bwd_call"
    /\ iweights' = split_iweights(weights, active_flag)
    /\ dweights' = split_dweights_backward(weights)
    /\ out_grad' = zeros(sizes)
    /\ weights_grad' = zeros_like(weights)
    /\ pos' = [t \in 1..NumThreads |-> chunk_begin(t)]
    /\ writers' = no_writers(sizes)
    /\ pc' = "bwd_run"
    /\ UNCHANGED <<grad, grad_strides, dshifts3_lands, output, resolved_out_of_range>>
    /\ UNCHANGED callVars
    /\ UNCHANGED idxVars
    /\ UNCHANGED qVars
    /\ UNCHANGED seqVars
    /\ UNCHANGED k32Vars

(* the body of the channel-major loop of _shifts_backward_cpu for one index: *)
(* the two result buffers og, wg after the work item                        *)
backward_item_nchwd(index, og, wg, garbage) ==
    LET sizeC == sizes.C
        sizeH == sizes.H
        sizeW == IF nD < 2 THEN 1 ELSE sizes.W
        sizeD == IF nD < 3 THEN 1 ELSE sizes.D
        k == index % sizeD
        j == (index \div sizeD) % sizeW
        i == (index \div (sizeD * sizeW)) % sizeH
        c == (index \div (sizeD * sizeW * sizeH)) % sizeC
        n == index \div (sizeD * sizeW * sizeH * sizeC)
    IN  shift_backward_kernel_nchwd(
            Memory(grad, sizes, garbage), input, og, iweights, dweights, wg,
            n, c, i, j, k, sizeH, sizeW, sizeD,
            KernelStrides(nD, grad_strides),
            KernelStrides(nD, input_strides),
            KernelStrides(nD, out_grad_strides),
            nD, 1, nD, 1, nD, 1, padding_mode, active_flag)

(* the same for the channel-last loop *)
backward_item_nhwdc(index, og, wg, garbage) ==
    LET sizeC == sizes.C
        sizeH == sizes.H
        sizeW == IF nD < 2 THEN 1 ELSE sizes.W
        sizeD == IF nD < 3 THEN 1 ELSE sizes.D
        k == index % sizeD
        j == (index \div sizeD) % sizeW
        i == (index \div (sizeD * sizeW)) % sizeH
        n == index \div (sizeD * sizeW * sizeH)
    IN  shift_backward_kernel_nhwdc(
            Memory(grad, sizes, garbage), input, og, iweights, dweights, wg,
            n, i, j, k, sizeC, sizeH, sizeW, sizeD,
            KernelStrides(nD, grad_strides),
            KernelStrides(nD, input_strides),
            KernelStrides(nD, out_grad_strides),
            nD, 1, nD, 1, nD, 1, padding_mode, active_flag, dshifts3_lands)

(* the offsets of out_grad that the work item index stores to *)
backward_item_writes(index) ==
    LET sizeC == sizes.C
        sizeH == sizes.H
        sizeW == IF nD < 2 THEN 1 ELSE sizes.W
        sizeD == IF nD < 3 THEN 1 ELSE sizes.D
        k == index % sizeD
        j == (index \div sizeD) % sizeW
        i == (index \div (sizeD * sizeW)) % sizeH
    IN  IF channels_last_path
        THEN nhwdc_item_writes(index \div (sizeD * sizeW * sizeH), i, j, k, sizeC,
                               KernelStrides(nD, out_grad_strides))
        ELSE nchwd_item_writes(index \div (sizeD * sizeW * sizeH * sizeC),
                               (index \div (sizeD * sizeW * sizeH)) % sizeC, i, j, k,
                               KernelStrides(nD, out_grad_strides))

(* one iteration of the channel-major loop of _shifts_backward_cpu by thread t *)
BackwardStepNCHWD(t) ==
    /\ pc = "bwd_run"
    /\ ~channels_last_path
    /\ pos[t] < chunk_end(t)
    /\ \E garbage \in Uninitialised :
          \E result \in {backward_item_nchwd(pos[t], out_grad, weights_grad, garbage)} :
             /\ out_grad' = result.output_grad
             /\ weights_grad' = result.weights_grad
    /\ writers' = record_writes(writers, backward_item_writes(pos[t]), pos[t])
    /\ pos' = [pos EXCEPT ![t] = pos[t] + 1]
    /\ UNCHANGED <<pc, iweights, dweights, output, resolved_out_of_range>>
    /\ UNCHANGED <<grad, grad_strides, dshifts3_lands>>
    /\ UNCHANGED callVars
    /\ UNCHANGED idxVars
    /\ UNCHANGED qVars
    /\ UNCHANGED seqVars
    /\ UNCHANGED k32Vars

(* one iteration of the channel-last loop of _shifts_backward_cpu by thread t *)
BackwardStepNHWDC(t) ==
    /\ pc = "bwd_run"
    /\ channels_last_path
    /\ pos[t] < chunk_end(t)
    /\ \E garbage \in Uninitialised :
          \E result \in {backward_item_nhwdc(pos[t], out_grad, weights_grad, garbage)} :
             /\ out_grad' = result.output_grad
             /\ weights_grad' = result.weights_grad
    /\ writers' = record_writes(writers, backward_item_writes(pos[t]), pos[t])
    /\ pos' = [pos EXCEPT ![t] = pos[t] + 1]
    /\ UNCHANGED <<pc, iweights, dweights, output, resolved_out_of_range>>
    /\ UNCHANGED <<grad, grad_strides, dshifts3_lands>>
    /\ UNCHANGED callVars
    /\ UNCHANGED idxVars
    /\ UNCHANGED qVars
    /\ UNCHANGED seqVars
    /\ UNCHANGED k32Vars

(* every chunk is exhausted: shiftnd_backward_cpu returns {out_grad, weights_grad} *)
BackwardReturn ==
    /\ pc = "bwd_run"
    /\ \A t \in 1..NumThreads : pos[t] = chunk_end(t)
    /\ pc' = "bwd_done"
    /\ UNCHANGED fwdVars
    /\ UNCHANGED bwdVars
    /\ UNCHANGED idxVars
    /\ UNCHANGED qVars
    /\ UNCHANGED seqVars
    /\ UNCHANGED k32Vars
    /\ UNCHANGED writers

NextBwd ==
    \/ BackwardEntry
    \/ \E t \in 1..NumThreads : BackwardStepNCHWD(t)
    \/ \E t \in 1..NumThreads : BackwardStepNHWDC(t)
    \/ BackwardReturn

SpecBwd == InitBwd /\ [][NextBwd]_vars

----------------------------------------------------------------------------
(* Calls of shiftnd_forward_cpu whose weights have one channel more than   *)
(* the input: the entry point tests nothing, so the call proceeds as any   *)
(* other call                                                              *)

InitPre ==
    /\ pc = "fwd_call"
    /\ nD \in 1..3
    /\ sizes \in BwdShapes(nD)
    /\ input_strides \in {ContiguousStrides(sizes), ChannelsLastStrides(sizes)}
    /\ input = TensorBuffer(sizes, input_strides)
    /\ weights \in BwdWeightTensors(sizes.C + 1, nD)
    /\ padding_mode \in BIPadding
    /\ active_flag \in BOOLEAN
    /\ iweights = <<>> /\ dweights = <<>> /\ output = <<>> /\ pos = <<>>
    /\ resolved_out_of_range = FALSE
    /\ idx = 0 /\ len = 1 /\ mode = Zeros /\ ret = 0
    /\ grad = <<>> /\ grad_strides = NoCall /\ out_grad = <<>> /\ weights_grad = <<>>
    /\ dshifts3_lands = "unused" /\ q_zero_point = 0 /\ q_weights_zero_point = 0
    /\ writers = <<>>
    /\ calls_made = 0
    /\ alerted = FALSE
    /\ k32_index = 0 /\ k32_coord = 0 /\ k32_shift = 0 /\ k32_corner = 0
    /\ k32_overflowed = FALSE

SpecPre == InitPre /\ [][NextFwd]_vars

----------------------------------------------------------------------------
(* Forward and backward calls together: one call of shiftnd_forward_cpu or *)
(* of shiftnd_backward_cpu, on the shapes and weights of the backward      *)
(* bounds                                                                  *)

InitCalls ==
    \/ InitBwd
    \/ /\ pc = "fwd_call"
       /\ nD \in 1..3
       /\ sizes \in BwdShapes(nD)
       /\ input_strides \in {ContiguousStrides(sizes), ChannelsLastStrides(sizes)}
       /\ input = TensorBuffer(sizes, input_strides)
       /\ weights \in BwdWeightTensors(sizes.C, nD)
       /\ padding_mode \in BIPadding
       /\ active_flag \in BOOLEAN
       /\ iweights = <<>> /\ dweights = <<>> /\ output = <<>> /\ pos = <<>>
       /\ resolved_out_of_range = FALSE
       /\ idx = 0 /\ len = 1 /\ mode = Zeros /\ ret = 0
       /\ grad = <<>> /\ grad_strides = NoCall /\ out_grad = <<>> /\ weights_grad = <<>>
       /\ dshifts3_lands = "unused" /\ q_zero_point = 0 /\ q_weights_zero_point = 0
       /\ writers = <<>>
       /\ calls_made = 0
       /\ alerted = FALSE
       /\ k32_index = 0 /\ k32_coord = 0 /\ k32_shift = 0 /\ k32_corner = 0
       /\ k32_overflowed = FALSE

NextCalls == NextFwd \/ NextBwd

SpecCalls == InitCalls /\ [][NextCalls]_vars

----------------------------------------------------------------------------
(* Sequences of calls: the caller makes a forward or a backward call and, *)
(* when it has returned, another one on the same input and weights; the   *)
(* buffers of the first call still hold what it left in them.             *)

MaxCalls == 1

SeqPaddings == {Zeros, Reflect}

InitSeq ==
    /\ pc \in {"fwd_call", "bwd_call"}
    /\ nD \in 1..2
    /\ sizes = TwoChannels(nD)
    /\ input_strides \in {ContiguousStrides(sizes), ChannelsLastStrides(sizes)}
    /\ input = TensorBuffer(sizes, input_strides)
    /\ weights \in BwdWeightTensors(sizes.C, nD)
    /\ padding_mode \in SeqPaddings
    /\ active_flag \in BOOLEAN
    /\ IF pc = "bwd_call"
       THEN /\ grad_strides \in {ContiguousStrides(sizes), ChannelsLastStrides(sizes)}
            /\ grad = GradBuffer(sizes, grad_strides)
       ELSE /\ grad_strides = NoCall
            /\ grad = <<>>
    /\ dshifts3_lands \in (IF is_channels_last(nD, sizes, input_strides)
                           THEN BuildLayouts ELSE {"unused"})
    /\ iweights = <<>> /\ dweights = <<>> /\ output = <<>> /\ pos = <<>>
    /\ out_grad = <<>> /\ weights_grad = <<>>
    /\ resolved_out_of_range = FALSE
    /\ idx = 0 /\ len = 1 /\ mode = Zeros /\ ret = 0
    /\ q_zero_point = 0 /\ q_weights_zero_point = 0
    /\ writers = <<>>
    /\ calls_made = 0
    /\ alerted = FALSE
    /\ k32_index = 0 /\ k32_coord = 0 /\ k32_shift = 0 /\ k32_corner = 0
    /\ k32_overflowed = FALSE

(* the caller's next call: forward or backward, with either value of the  *)
(* active flag and, for backward, a gradient of either layout; nothing    *)
(* that an earlier call allocated is touched                              *)
NextCall ==
    /\ pc \in {"fwd_done", "bwd_done"}
    /\ calls_made < MaxCalls
    /\ calls_made' = calls_made + 1
    /\ alerted' = FALSE
    /\ pc' \in {"fwd_call", "bwd_call"}
    /\ active_flag' \in BOOLEAN
    /\ IF pc' = "bwd_call"
       THEN /\ grad_strides' \in {ContiguousStrides(sizes), ChannelsLastStrides(sizes)}
            /\ grad' = GradBuffer(sizes, grad_strides')
       ELSE UNCHANGED <<grad, grad_strides>>
    /\ UNCHANGED <<nD, sizes, input_strides, input, weights, padding_mode>>
    /\ UNCHANGED <<iweights, dweights, output, pos, resolved_out_of_range>>
    /\ UNCHANGED <<out_grad, weights_grad, dshifts3_lands, writers>>
    /\ UNCHANGED idxVars
    /\ UNCHANGED qVars
    /\ UNCHANGED k32Vars

NextSeq == NextCalls \/ NextCall

SpecSeq == InitSeq /\ [][NextSeq]_vars

----------------------------------------------------------------------------
(* CUDA entry points.  shifts_cuda.h, which sets the launch dimensions, is *)
(* not in the sources: the grid is taken as NumThreads threads in all,     *)
(* thread t starting at index t - 1 and advancing by the size of the grid  *)
(* (CUDA_KERNEL_LOOP_TYPE).  The kernels are always the channel-major ones. *)

(* int64_t count = N*C*H*W*D *)
count == sizes.N * sizes.C * sizes.H * sizes.W * sizes.D

(* every thread starting at index 0 *)
grid_start_shared(t) == 0

(* blockIdx.x * blockDim.x + threadIdx.x *)
grid_start(t) == t - 1
(* blockDim.x * gridDim.x *)
grid_stride == NumThreads

InitCuda ==
    /\ pc \in {"cuda_fwd_call", "cuda_bwd_call"}
    /\ nD \in 1..3
    /\ sizes \in BwdShapes(nD)
    /\ input_strides \in {ContiguousStrides(sizes), ChannelsLastStrides(sizes)}
    /\ input = TensorBuffer(sizes, input_strides)
    /\ weights \in BwdWeightTensors(sizes.C, nD)
    /\ padding_mode \in BIPadding
    /\ active_flag \in BOOLEAN
    /\ IF pc = "cuda_bwd_call"
       THEN /\ grad_strides \in {ContiguousStrides(sizes), ChannelsLastStrides(sizes)}
            /\ grad = GradBuffer(sizes, grad_strides)
       ELSE /\ grad_strides = NoCall
            /\ grad = <<>>
    /\ iweights = <<>> /\ dweights = <<>> /\ output = <<>> /\ pos = <<>>
    /\ out_grad = <<>> /\ weights_grad = <<>>
    /\ resolved_out_of_range = FALSE
    /\ idx = 0 /\ len = 1 /\ mode = Zeros /\ ret = 0
    /\ dshifts3_lands = "unused" /\ q_zero_point = 0 /\ q_weights_zero_point = 0
    /\ writers = <<>>
    /\ calls_made = 0
    /\ alerted = FALSE
    /\ k32_index = 0 /\ k32_coord = 0 /\ k32_shift = 0 /\ k32_corner = 0
    /\ k32_overflowed = FALSE

(* shiftnd_forward_cuda up to the launch of _shifts_cuda *)
CudaForwardEntry ==
    /\ pc = "cuda_fwd_call"
    /\ output' = zeros(sizes)
    /\ iweights' = split_iweights(weights, active_flag)
    /\ dweights' = split_dweights_forward(weights, active_flag)
    /\ pos' = [t \in 1..NumThreads |-> grid_start(t)]
    /\ pc' = "cuda_fwd_run"
    /\ writers' = no_writers(sizes)
    /\ UNCHANGED resolved_out_of_range
    /\ UNCHANGED callVars
    /\ UNCHANGED idxVars
    /\ UNCHANGED bwdVars
    /\ UNCHANGED qVars
    /\ UNCHANGED seqVars
    /\ UNCHANGED k32Vars

(* one iteration of the loop of _shifts_cuda by thread t *)
CudaForwardStep(t) ==
    /\ pc = "cuda_fwd_run"
    /\ pos[t] < count
    /\ LET index == pos[t]
           sizeC == sizes.C
           sizeH == sizes.H
           sizeW == IF nD < 2 THEN 1 ELSE sizes.W
           sizeD == IF nD < 3 THEN 1 ELSE sizes.D
           k == index % sizeD
           j == (index \div sizeD) % sizeW
           i == (index \div (sizeD * sizeW)) % sizeH
           c == (index \div (sizeD * sizeW * sizeH)) % sizeC
           n == index \div (sizeD * sizeW * sizeH * sizeC)
       IN  /\ output' = shift_forward_kernel_nchwd(
                            input, output, iweights, dweights,
                            n, c, i, j, k, sizeH, sizeW, sizeD,
                            KernelStrides(nD, input_strides),
                            KernelStrides(nD, output_strides),
                            nD, 1, nD, 1, padding_mode, active_flag)
           /\ resolved_out_of_range' =
                 (resolved_out_of_range
                    \/ OutOfRangeCall(forward_item_calls(iweights, c, i, j, k,
                                          sizeH, sizeW, sizeD, nD, 1, active_flag)))
           /\ writers' = record_writes(writers,
                              nchwd_item_writes(n, c, i, j, k,
                                                KernelStrides(nD, output_strides)),
                              index)
    /\ pos' = [pos EXCEPT ![t] = pos[t] + grid_stride]
    /\ UNCHANGED <<pc, iweights, dweights>>
    /\ UNCHANGED callVars
    /\ UNCHANGED idxVars
    /\ UNCHANGED bwdVars
    /\ UNCHANGED qVars
    /\ UNCHANGED seqVars
    /\ UNCHANGED k32Vars

(* every thread has left its loop: shiftnd_forward_cuda returns output *)
CudaForwardReturn ==
    /\ pc = "cuda_fwd_run"
    /\ \A t \in 1..NumThreads : pos[t] >= count
    /\ pc' = "cuda_fwd_done"
    /\ UNCHANGED <<iweights, dweights, output, pos, resolved_out_of_range>>
    /\ UNCHANGED callVars
    /\ UNCHANGED idxVars
    /\ UNCHANGED bwdVars
    /\ UNCHANGED qVars
    /\ UNCHANGED seqVars
    /\ UNCHANGED k32Vars
    /\ UNCHANGED writers

(* shiftnd_backward_cuda up to the launch of _shifts_backward_cuda *)
CudaBackwardEntry ==
    /\ pc = "cuda_bwd_call"
    /\ alerted' = TRUE
    /\ iweights' = split_iweights(weights, active_flag)
    /\ dweights' = split_dweights_backward(weights)
    /\ out_grad' = zeros(sizes)
    /\ weights_grad' = zeros_like(weights)
    /\ pos' = [t \in 1..NumThreads |-> grid_start(t)]
    /\ writers' = no_writers(sizes)
    /\ pc' = "cuda_bwd_run"
    /\ UNCHANGED <<grad, grad_strides, dshifts3_lands, output, resolved_out_of_range>>
    /\ UNCHANGED callVars
    /\ UNCHANGED idxVars
    /\ UNCHANGED qVars
    /\ UNCHANGED calls_made
    /\ UNCHANGED k32Vars

(* the element of out_grad that the channel-major kernel writes for index *)
cuda_backward_item_writes(index) ==
    LET sizeC == sizes.C
        sizeH == sizes.H
        sizeW == IF nD < 2 THEN 1 ELSE sizes.W
        sizeD == IF nD < 3 THEN 1 ELSE sizes.D
    IN  nchwd_item_writes(index \div (sizeD * sizeW * sizeH * sizeC),
                          (index \div (sizeD * sizeW * sizeH)) % sizeC,
                          (index \div (sizeD * sizeW)) % sizeH,
                          (index \div sizeD) % sizeW,
                          index % sizeD,
                          KernelStrides(nD, out_grad_strides))

(* one iteration of the loop of _shifts_backward_cuda by thread t *)
CudaBackwardStep(t) ==
    /\ pc = "cuda_bwd_run"
    /\ pos[t] < count
    /\ \E garbage \in Uninitialised :
          \E result \in {backward_item_nchwd(pos[t], out_grad, weights_grad, garbage)} :
             /\ out_grad' = result.output_grad
             /\ weights_grad' = result.weights_grad
    /\ writers' = record_writes(writers, cuda_backward_item_writes(pos[t]), pos[t])
    /\ pos' = [pos EXCEPT ![t] = pos[t] + grid_stride]
    /\ UNCHANGED <<pc, iweights, dweights, output, resolved_out_of_range>>
    /\ UNCHANGED <<grad, grad_strides, dshifts3_lands>>
    /\ UNCHANGED callVars
    /\ UNCHANGED idxVars
    /\ UNCHANGED qVars
    /\ UNCHANGED seqVars
    /\ UNCHANGED k32Vars

(* every thread has left its loop: shiftnd_backward_cuda returns *)
CudaBackwardReturn ==
    /\ pc = "cuda_bwd_run"
    /\ \A t \in 1..NumThreads : pos[t] >= count
    /\ pc' = "cuda_bwd_done"
    /\ UNCHANGED fwdVars
    /\ UNCHANGED bwdVars
    /\ UNCHANGED idxVars
    /\ UNCHANGED qVars
    /\ UNCHANGED seqVars
    /\ UNCHANGED k32Vars
    /\ UNCHANGED writers

NextCuda ==
    \/ CudaForwardEntry
    \/ \E t \in 1..NumThreads : CudaForwardStep(t)
    \/ CudaForwardReturn
    \/ CudaBackwardEntry
    \/ \E t \in 1..NumThreads : CudaBackwardStep(t)
    \/ CudaBackwardReturn

(* every entry point: one CPU or CUDA call, forward or backward *)
InitAll == InitCalls \/ InitCuda

NextAll == NextCalls \/ NextCuda

(* the padding modes of the calls whose stores are followed: which        *)
(* element a work item stores to does not depend on the padding mode      *)
WritePaddings == {Zeros, Periodic}

InitWrites == InitAll /\ padding_mode \in WritePaddings

SpecWrites == InitWrites /\ [][NextAll]_vars

----------------------------------------------------------------------------
(* The index computations of one work item of _shifts_cuda instantiated    *)
(* with the narrow index type (int32bit_cond), on axis 1 of a rank-1 call. *)
(* The index type is IndexBits wide; a signed value that leaves it is      *)
(* undefined: the build either wraps it or keeps it in a wider register.   *)

IndexBits == 4

RECURSIVE Pow2(_)
Pow2(n) == IF n = 0 THEN 1 ELSE 2 * Pow2(n - 1)

IndexMax == Pow2(IndexBits - 1) - 1
IndexMin == -Pow2(IndexBits - 1)

Representable(x) == (x >= IndexMin) /\ (x <= IndexMax)

Wrap(x) == ((x - IndexMin) % Pow2(IndexBits)) + IndexMin

signed_result(x) == IF Representable(x) THEN {x} ELSE {Wrap(x), x}

(* canUse32BitIndexMath: the element count fits the index type *)
canUse32BitIndexMath(sz) == sz.N * sz.C * sz.H * sz.W * sz.D <= IndexMax

(* the values mod computes: a % b, b + a % b, (b + a % b) % b *)
mod_values(a, b) == {CRem(a, b), b + CRem(a, b), mod(a, b)}

(* the values the parity expression computes *)
odd_seq_values(out_index, p) ==
    {ABS(out_index),
     ABS(out_index) - BoolToInt(out_index < 0),
     CDiv(ABS(out_index) - BoolToInt(out_index < 0), p),
     BoolToInt(out_index < 0) + CDiv(ABS(out_index) - BoolToInt(out_index < 0), p)}

(* every value infer_index computes on the way to its result *)
infer_index_values(index, l, pm) ==
    IF (index < l) /\ (index >= 0) THEN {index}
    ELSE CASE pm = Zeros     -> {index, -1}
           [] pm = Border    -> {index, l - 1, border_index(index, l)}
           [] pm = Periodic  -> {index} \cup mod_values(index, l)
           [] pm = Reflect   ->
                IF l = 1 THEN {index, 0}
                ELSE {index, l - 1, l - 1 - mod(index, l - 1)}
                         \cup odd_seq_values(index, l - 1)
                         \cup mod_values(index, l - 1)
           [] pm = Symmetric ->
                {index, l - 1, l - 1 - mod(index, l)}
                    \cup odd_seq_values(index, l) \cup mod_values(index, l)
           [] OTHER          -> {index}

Shapes32 ==
    {sz \in [N : 1..2, C : 1..2, H : 1..IndexMax, W : {1}, D : {1}] :
        canUse32BitIndexMath(sz)}

InitK32 ==
    /\ pc = "k32_call"
    /\ nD = 1
    /\ sizes \in Shapes32
    /\ k32_index \in 0..(sizes.N * sizes.C * sizes.H - 1)
    /\ k32_shift \in (-sizes.H)..sizes.H
    /\ mode \in BIPadding
    /\ active_flag \in BOOLEAN
    /\ k32_corner \in (IF active_flag THEN {0, 1} ELSE {0})
    /\ k32_coord = 0 /\ k32_overflowed = FALSE
    /\ idx = 0 /\ len = 1 /\ ret = 0
    /\ input_strides = NoCall
    /\ input = <<>> /\ weights = <<>> /\ padding_mode = Zeros
    /\ iweights = <<>> /\ dweights = <<>>
    /\ output = <<>> /\ pos = <<>> /\ resolved_out_of_range = FALSE
    /\ grad = <<>> /\ grad_strides = NoCall /\ out_grad = <<>> /\ weights_grad = <<>>
    /\ dshifts3_lands = "unused" /\ q_zero_point = 0 /\ q_weights_zero_point = 0
    /\ writers = <<>>
    /\ calls_made = 0
    /\ alerted = FALSE

(* shifts_cuda.cu:56-60: k, j, i, c, n from the linear index *)
Decompose32 ==
    /\ pc = "k32_call"
    /\ LET sizeD == 1
           sizeW == 1
           computed == {k32_index % sizeD, k32_index \div sizeD, sizeD * sizeW,
                        k32_index \div (sizeD * sizeW),
                        sizeD * sizeW * sizes.H,
                        k32_index \div (sizeD * sizeW * sizes.H),
                        sizeD * sizeW * sizes.H * sizes.C,
                        k32_index \div (sizeD * sizeW * sizes.H * sizes.C)}
       IN  /\ k32_coord' = (k32_index \div (sizeD * sizeW)) % sizes.H
           /\ k32_overflowed' = \E v \in computed : ~Representable(v)
    /\ pc' = "k32_shift"
    /\ UNCHANGED <<k32_index, k32_shift, k32_corner>>
    /\ UNCHANGED <<idx, len, mode, ret>>
    /\ UNCHANGED fwdVars
    /\ UNCHANGED bwdVars
    /\ UNCHANGED qVars
    /\ UNCHANGED seqVars
    /\ UNCHANGED writers

(* shifts_kernels.h:139 / 150: i - shifts[0], and line 69: i_shifted + 1 *)
Shift32 ==
    /\ pc = "k32_shift"
    /\ \E i_shifted \in signed_result(k32_coord - k32_shift) :
           /\ idx' \in (IF k32_corner = 1 THEN signed_result(i_shifted + 1)
                         ELSE {i_shifted})
           /\ k32_overflowed' = (\/ k32_overflowed
                                 \/ ~Representable(k32_coord - k32_shift)
                                 \/ (k32_corner = 1 /\ ~Representable(i_shifted + 1)))
    /\ len' = sizes.H
    /\ pc' = "k32_resolve"
    /\ UNCHANGED <<k32_index, k32_coord, k32_shift, k32_corner>>
    /\ UNCHANGED <<mode, ret>>
    /\ UNCHANGED fwdVars
    /\ UNCHANGED bwdVars
    /\ UNCHANGED qVars
    /\ UNCHANGED seqVars
    /\ UNCHANGED writers

(* shifts_kernels.h:51: tidx_i = infer_index<idx_t>(i_shifted, sizeH, padding_mode) *)
Resolve32 ==
    /\ pc = "k32_resolve"
    /\ ret' = infer_index(idx, len, mode)
    /\ k32_overflowed' = (\/ k32_overflowed
                          \/ \E v \in infer_index_values(idx, len, mode) :
                                 ~Representable(v))
    /\ pc' = "k32_done"
    /\ UNCHANGED <<k32_index, k32_coord, k32_shift, k32_corner>>
    /\ UNCHANGED <<idx, len, mode>>
    /\ UNCHANGED fwdVars
    /\ UNCHANGED bwdVars
    /\ UNCHANGED qVars
    /\ UNCHANGED seqVars
    /\ UNCHANGED writers

NextK32 == Decompose32 \/ Shift32 \/ Resolve32

SpecK32 == InitK32 /\ [][NextK32]_vars

----------------------------------------------------------------------------
(* Quantized forward kernels.  Each returns the output buffer after the    *)
(* work item.                                                              *)

(* the channel-major kernel without the weights' zero point *)
shift_forward_kernel_nchwd_q_raw_weights(input_ptr, output_ptr, weights_ptr, n, c, i, j, k, sizeH, sizeW, sizeD, input_s, output_s, weights_sC, weights_sS, zero_point, weights_zero_point, pm) ==
    LET input_NC == [buf |-> input_ptr, off |-> n * input_s.sN + c * input_s.sC]
        output_NCHWD == n * output_s.sN + c * output_s.sC + i * output_s.sH
                          + j * output_s.sW + k * output_s.sD
        shifts ==
            <<weights_ptr[c * weights_sC],
              IF sizeW > 1
              THEN weights_ptr[c * weights_sC + weights_sS]
              ELSE 0,
              IF sizeD > 1
              THEN weights_ptr[c * weights_sC + 2 * weights_sS]
              ELSE 0>>
    IN  [output_ptr EXCEPT ![output_NCHWD] =
            get_shifted_value(i - shifts[1], sizeH, input_s.sH,
                                j - shifts[2], sizeW, input_s.sW,
                                k - shifts[3], sizeD, input_s.sD,
                                0, 0, input_NC, zero_point, pm)]

shift_forward_kernel_nchwd_q(input_ptr, output_ptr, weights_ptr, n, c, i, j, k, sizeH, sizeW, sizeD, input_s, output_s, weights_sC, weights_sS, zero_point, weights_zero_point, pm) ==
    LET input_NC == [buf |-> input_ptr, off |-> n * input_s.sN + c * input_s.sC]
        output_NCHWD == n * output_s.sN + c * output_s.sC + i * output_s.sH
                          + j * output_s.sW + k * output_s.sD
        shifts ==
            <<weights_ptr[c * weights_sC] - weights_zero_point,
              IF sizeW > 1
              THEN weights_ptr[c * weights_sC + weights_sS] - weights_zero_point
              ELSE 0,
              IF sizeD > 1
              THEN weights_ptr[c * weights_sC + 2 * weights_sS] - weights_zero_point
              ELSE 0>>
    IN  [output_ptr EXCEPT ![output_NCHWD] =
            get_shifted_value(i - shifts[1], sizeH, input_s.sH,
                                j - shifts[2], sizeW, input_s.sW,
                                k - shifts[3], sizeD, input_s.sD,
                                0, 0, input_NC, zero_point, pm)]

shift_forward_kernel_nhwdc_q(input_ptr, output_ptr, weights_ptr, n, i, j, k, sizeC, sizeH, sizeW, sizeD, input_s, output_s, weights_sC, weights_sS, zero_point, weights_zero_point, pm) ==
    LET input_N == [buf |-> input_ptr, off |-> n * input_s.sN]
        output_NHWD == n * output_s.sN + i * output_s.sH
                         + j * output_s.sW + k * output_s.sD
        (* loop[m]: shifts[] and the output buffer after m iterations of the c loop *)
        loop[m \in 0..sizeC] ==
          IF m = 0 THEN [shifts |-> <<0, 0, 0>>, out |-> output_ptr]
          ELSE
            LET c == m - 1
                before == loop[m - 1]
                shifts ==
                    <<weights_ptr[c * weights_sC] - weights_zero_point,
                      IF sizeW > 1
                      THEN weights_ptr[weights_sS + c * weights_sC] - weights_zero_point
                      ELSE before.shifts[2],
                      IF sizeD > 1
                      THEN weights_ptr[2 * weights_sS + c * weights_sC] - weights_zero_point
                      ELSE before.shifts[3]>>
                val == get_shifted_value(i - shifts[1], sizeH, input_s.sH,
                                           j - shifts[2], sizeW, input_s.sW,
                                           k - shifts[3], sizeD, input_s.sD,
                                           c, input_s.sC, input_N, zero_point, pm)
            IN  [shifts |-> shifts,
                 out |-> [before.out EXCEPT ![output_NHWD + c * output_s.sC] = val]]
        final == loop[sizeC]
    IN  final.out

(* The kernels have no caller in the sources: they are applied here to    *)
(* every work item of a tensor in index order, each variant on inputs of  *)
(* both layouts, with a contiguous output.                                *)

MaxShiftQ == 1
MaxZeroPointQ == 1

(* integer weights: a row of shifts, channel c adds c * step, all offset  *)
(* by the weights' zero point                                             *)
QuantWeightTensors(sizeC, rank, wzp) ==
    {[o \in 0..(sizeC * rank - 1) |-> r[(o % rank) + 1] + (o \div rank) * step + wzp] :
       r \in {x \in [1..rank -> -MaxShiftQ..MaxShiftQ] : AbsSum(x, rank) <= MaxShiftQ},
       step \in {0, 1}}

(* zero points of the input: 0, and a value no input element has *)
InputZeroPoints == {0, One + 1}

InitQ ==
    /\ pc \in {"q_nchwd", "q_nhwdc"}
    /\ nD \in 1..3
    /\ sizes \in BwdShapes(nD)
    /\ input_strides \in {ContiguousStrides(sizes), ChannelsLastStrides(sizes)}
    /\ input = TensorBuffer(sizes, input_strides)
    /\ q_zero_point \in InputZeroPoints
    /\ q_weights_zero_point \in 0..MaxZeroPointQ
    /\ iweights \in QuantWeightTensors(sizes.C, nD, q_weights_zero_point)
    /\ padding_mode \in BIPadding
    /\ output = zeros(sizes)
    /\ pos = <<0>>
    /\ writers = no_writers(sizes)
    /\ calls_made = 0
    /\ alerted = FALSE
    /\ k32_index = 0 /\ k32_coord = 0 /\ k32_shift = 0 /\ k32_corner = 0
    /\ k32_overflowed = FALSE
    /\ weights = <<>> /\ dweights = <<>> /\ active_flag = FALSE
    /\ resolved_out_of_range = FALSE
    /\ idx = 0 /\ len = 1 /\ mode = Zeros /\ ret = 0
    /\ grad = <<>> /\ grad_strides = NoCall /\ out_grad = <<>> /\ weights_grad = <<>>
    /\ dshifts3_lands = "unused"

(* the channel-major quantized kernel on the next index *)
QuantizedStepNCHWD ==
    /\ pc = "q_nchwd"
    /\ pos[1] < Numel(sizes)
    /\ LET index == pos[1]
           k == index % sizes.D
           j == (index \div sizes.D) % sizes.W
           i == (index \div (sizes.D * sizes.W)) % sizes.H
           c == (index \div (sizes.D * sizes.W * sizes.H)) % sizes.C
           n == index \div (sizes.D * sizes.W * sizes.H * sizes.C)
       IN  /\ output' = shift_forward_kernel_nchwd_q(
                            input, output, iweights, n, c, i, j, k,
                            sizes.H, sizes.W, sizes.D,
                            KernelStrides(nD, input_strides),
                            KernelStrides(nD, output_strides),
                            nD, 1, q_zero_point, q_weights_zero_point, padding_mode)
           /\ writers' = record_writes(writers,
                              nchwd_item_writes(n, c, i, j, k,
                                                KernelStrides(nD, output_strides)),
                              index)
    /\ pos' = <<pos[1] + 1>>
    /\ UNCHANGED <<pc, iweights, dweights, resolved_out_of_range>>
    /\ UNCHANGED callVars
    /\ UNCHANGED idxVars
    /\ UNCHANGED bwdVars
    /\ UNCHANGED qVars
    /\ UNCHANGED seqVars
    /\ UNCHANGED k32Vars

(* the channel-last quantized kernel on the next index *)
QuantizedStepNHWDC ==
    /\ pc = "q_nhwdc"
    /\ pos[1] < sizes.N * sizes.H * sizes.W * sizes.D
    /\ LET index == pos[1]
           k == index % sizes.D
           j == (index \div sizes.D) % sizes.W
           i == (index \div (sizes.D * sizes.W)) % sizes.H
           n == index \div (sizes.D * sizes.W * sizes.H)
       IN  /\ output' = shift_forward_kernel_nhwdc_q(
                            input, output, iweights, n, i, j, k,
                            sizes.C, sizes.H, sizes.W, sizes.D,
                            KernelStrides(nD, input_strides),
                            KernelStrides(nD, output_strides),
                            nD, 1, q_zero_point, q_weights_zero_point, padding_mode)
           /\ writers' = record_writes(writers,
                              nhwdc_item_writes(n, i, j, k, sizes.C,
                                                KernelStrides(nD, output_strides)),
                              index)
    /\ pos' = <<pos[1] + 1>>
    /\ UNCHANGED <<pc, iweights, dweights, resolved_out_of_range>>
    /\ UNCHANGED callVars
    /\ UNCHANGED idxVars
    /\ UNCHANGED bwdVars
    /\ UNCHANGED qVars
    /\ UNCHANGED seqVars
    /\ UNCHANGED k32Vars

(* every work item has run *)
QuantizedDone ==
    /\ \/ pc = "q_nchwd" /\ pos[1] = Numel(sizes)
       \/ pc = "q_nhwdc" /\ pos[1] = sizes.N * sizes.H * sizes.W * sizes.D
    /\ pc' = "q_done"
    /\ UNCHANGED fwdVars
    /\ UNCHANGED bwdVars
    /\ UNCHANGED idxVars
    /\ UNCHANGED qVars
    /\ UNCHANGED seqVars
    /\ UNCHANGED k32Vars
    /\ UNCHANGED writers

NextQ == QuantizedStepNCHWD \/ QuantizedStepNHWDC \/ QuantizedDone

SpecQ == InitQ /\ [][NextQ]_vars

----------------------------------------------------------------------------
(* Reference functions used by the claims *)

(* mathematical modulo: the unique r in 0..b-1 with a - r divisible by b *)
MathMod(a, b) == a % b

RefReflect(i, l) ==
    IF l = 1 THEN 0
    ELSE LET m == MathMod(i, 2 * (l - 1))
         IN  IF m <= l - 1 THEN m ELSE 2 * (l - 1) - m

RefSymmetric(i, l) ==
    LET m == MathMod(i, 2 * l)
    IN  IF m < l THEN m ELSE 2 * l - 1 - m

IdxDone == pc = "idx_done"
InRange == 0 <= idx /\ idx < len

(* C1: for every padding mode, len >= 1 and idx in [0, len), infer_index   *)
(* returns idx unchanged.                                                  *)
C1_InRangeUnchanged == (IdxDone /\ InRange) => ret = idx

C1_Witness == IdxDone /\ InRange /\ mode = Zeros /\ idx = 2 /\ len = 3 /\ ret = 2

(* C2: the result is an index in [0, len) or the sentinel -1, and the      *)
(* sentinel appears only under Zeros with idx outside [0, len).            *)
C2_ValidOrSentinel ==
    IdxDone => /\ (ret \in 0..(len - 1)) \/ ret = -1
               /\ ret = -1 => (mode = Zeros /\ ~InRange)

C2_Witness == IdxDone /\ mode = Zeros /\ idx = -2 /\ len = 4 /\ ret = -1

(* C3: Reflect equals the reference reflection without edge repetition     *)
(* (period 2*(len-1)); 0 when len = 1.                                     *)
C3_Reflect == (IdxDone /\ mode = Reflect) => ret = RefReflect(idx, len)

C3_Witness == IdxDone /\ mode = Reflect /\ idx = -1 /\ len = 5 /\ ret = 1

(* C4: Symmetric equals the reference reflection with the edge repeated    *)
(* (period 2*len).                                                         *)
C4_Symmetric == (IdxDone /\ mode = Symmetric) => ret = RefSymmetric(idx, len)

C4_Witness == IdxDone /\ mode = Symmetric /\ idx = -1 /\ len = 5 /\ ret = 0

(* C5: Periodic on an out-of-range idx is the true mathematical modulo.    *)
C5_Periodic ==
    (IdxDone /\ mode = Periodic /\ ~InRange) =>
        /\ ret \in 0..(len - 1)
        /\ \E q \in -(MaxIdx + 1)..(MaxIdx + 1) : idx - ret = q * len

C5_Witness == IdxDone /\ mode = Periodic /\ idx = -1 /\ len = 5 /\ ret = 4

(* C6: Border clamps an out-of-range idx: 0 below, len-1 above.            *)
C6_Border ==
    (IdxDone /\ mode = Border /\ ~InRange) =>
        ret = (IF idx < 0 THEN 0 ELSE len - 1)

C6_Witness == IdxDone /\ mode = Border /\ idx = 7 /\ len = 5 /\ ret = 4

----------------------------------------------------------------------------
(* Forward claims *)

FwdDone == pc = "fwd_done"

(* the value of the logical input at a coordinate *)
InputAt(p) == Content(sizes, p)
OutputAt(p) == At(output, output_strides, p)

(* the channel's integer shift in direct mode: round(weights[c, axis]) for *)
(* the axes of the rank, 0 beyond the rank                                *)
RoundedShift(c, axis) ==
    IF axis <= nD THEN to_kLong(torch_round(weights[c * nD + (axis - 1)])) ELSE 0

Extent(axis) == IF axis = 1 THEN sizes.H ELSE IF axis = 2 THEN sizes.W ELSE sizes.D

(* the same, with axis-2 and axis-3 inactive (shift 0) when their extent is 1 *)
ActiveRoundedShift(c, axis) ==
    IF axis = 1 \/ Extent(axis) > 1 THEN RoundedShift(c, axis) ELSE 0

(* input[n, c, R(i-s1), R(j-s2), R(k-s3)], or 0 when an axis is invalid *)
DirectSample(s1, s2, s3, p) ==
    LET r1 == infer_index(p[3] - s1, sizes.H, padding_mode)
        r2 == infer_index(p[4] - s2, sizes.W, padding_mode)
        r3 == infer_index(p[5] - s3, sizes.D, padding_mode)
    IN  IF r1 = -1 \/ r2 = -1 \/ r3 = -1 THEN 0
        ELSE InputAt(<<p[1], p[2], r1, r2, r3>>)

(* C7 as stated: in direct mode every output element is the input sampled  *)
(* at coord - shift on every axis of the rank, 0 if any axis is invalid.   *)
C7_DirectForwardEveryAxis ==
    (FwdDone /\ ~active_flag) =>
        \A p \in Coords(sizes) :
            OutputAt(p) = DirectSample(RoundedShift(p[2], 1), RoundedShift(p[2], 2),
                                       RoundedShift(p[2], 3), p)

(* C7 amended: the same with the shift of axis-2 / axis-3 taken as 0 when  *)
(* that axis has extent 1; under Zeros a positive axis-1 shift s leaves 0  *)
(* in the first s positions and moves input[i-s] to position i.            *)
C7_DirectForward ==
    (FwdDone /\ ~active_flag) =>
        \A p \in Coords(sizes) :
            LET s1 == ActiveRoundedShift(p[2], 1)
                s2 == ActiveRoundedShift(p[2], 2)
                s3 == ActiveRoundedShift(p[2], 3)
            IN  /\ OutputAt(p) = DirectSample(s1, s2, s3, p)
                /\ (padding_mode = Zeros /\ s1 > 0 /\ p[3] < s1) => OutputAt(p) = 0
                /\ (padding_mode = Zeros /\ s1 > 0 /\ p[3] >= s1 /\ s2 = 0 /\ s3 = 0) =>
                       OutputAt(p) = InputAt(<<p[1], p[2], p[3] - s1, p[4], p[5]>>)

C7_Witness ==
    /\ FwdDone /\ ~active_flag /\ padding_mode = Zeros
    /\ nD = 2 /\ sizes.W = 2 /\ sizes.H = 2
    /\ RoundedShift(0, 1) = 1 /\ RoundedShift(0, 2) = 0
    /\ OutputAt(<<0, 0, 0, 1, 0>>) = 0
    /\ OutputAt(<<0, 0, 1, 1, 0>>) = InputAt(<<0, 0, 0, 1, 0>>)

(* C8: with all-zero weights and active = false the output equals the      *)
(* input element for element, and no index handed to infer_index during    *)
(* the call was out of range.                                              *)
ZeroWeights == \A o \in DOMAIN weights : weights[o] = 0

C8_ZeroShiftIdentity ==
    (FwdDone /\ ~active_flag /\ ZeroWeights) =>
        /\ \A p \in Coords(sizes) : OutputAt(p) = InputAt(p)
        /\ ~resolved_out_of_range

C8_Witness ==
    /\ FwdDone /\ ~active_flag /\ ZeroWeights /\ padding_mode = Zeros
    /\ nD = 3 /\ sizes.H = 2 /\ sizes.W = 2 /\ sizes.D = 2
    /\ OutputAt(<<0, 0, 1, 1, 1>>) = InputAt(<<0, 0, 1, 1, 1>>)
    /\ ~resolved_out_of_range

(* the value that a forward kernel variant stores at logical coordinate p  *)
(* when run on the buffer buf with strides st in mode active               *)
KernelValue(variant, buf, st, active, p, garbage) ==
    LET iw == split_iweights(weights, active)
        dw == split_dweights_forward(weights, active)
        os == KernelStrides(nD, output_strides)
        out == IF variant = "nchwd"
               THEN shift_forward_kernel_nchwd(
                        buf, zeros(sizes), iw, dw, p[1], p[2], p[3], p[4], p[5],
                        sizes.H, sizes.W, sizes.D, KernelStrides(nD, st), os,
                        nD, 1, nD, 1, padding_mode, active)
               ELSE shift_forward_kernel_nhwdc(
                        buf, zeros(sizes), iw, dw, p[1], p[3], p[4], p[5],
                        sizes.C, sizes.H, sizes.W, sizes.D, KernelStrides(nD, st), os,
                        nD, 1, nD, 1, padding_mode, active, garbage)
    IN  out[Offset(os, p[1], p[2], p[3], p[4], p[5])]

UsedVariant == IF channels_last_path THEN "nhwdc" ELSE "nchwd"
OtherVariant == IF channels_last_path THEN "nchwd" ELSE "nhwdc"

IntegerWeights == \A o \in DOMAIN weights : weights[o] % One = 0

(* C9: when every weight is an integer, the output of the call equals the  *)
(* output of the same call made with the other value of the active flag.   *)
C9_IntegerShiftExact ==
    (FwdDone /\ IntegerWeights) =>
        \A p \in Coords(sizes) : \A garbage \in Uninitialised :
            OutputAt(p) = KernelValue(UsedVariant, input, input_strides,
                                      ~active_flag, p, garbage)

C9_Witness ==
    /\ FwdDone /\ IntegerWeights /\ active_flag /\ ~ZeroWeights
    /\ nD = 2 /\ sizes.H = 2 /\ sizes.W = 2 /\ padding_mode = Reflect
    /\ \E p \in Coords(sizes) : OutputAt(p) # InputAt(p)

(* C10: the output of the call equals, at every logical coordinate, what   *)
(* the other kernel variant produces for the same logical input, weights,  *)
(* padding mode and active flag, whichever of the two layouts holds it.    *)
C10_LayoutEquivalence ==
    FwdDone =>
        \A st \in {ContiguousStrides(sizes), ChannelsLastStrides(sizes)} :
            LET buf == TensorBuffer(sizes, st)
            IN  \A p \in Coords(sizes) : \A garbage \in Uninitialised :
                    OutputAt(p) = KernelValue(OtherVariant, buf, st, active_flag,
                                              p, garbage)

----------------------------------------------------------------------------
(* Backward claims *)

BwdDone == pc = "bwd_done"

GradAt(p) == GradContent(sizes, p)
OutGradAt(p) == At(out_grad, out_grad_strides, p)
WeightsGradAt(c, axis) == weights_grad[c * nD + (axis - 1)]

RECURSIVE SetSum(_, _)
SetSum(f, S) ==
    IF S = {} THEN 0
    ELSE LET x == CHOOSE y \in S : TRUE IN f[x] + SetSum(f, S \ {x})

(* the input that is 1 at coordinate p and 0 elsewhere, in the layout st *)
UnitBuffer(st, p) ==
    [o \in 0..(Numel(sizes) - 1) |->
        IF o = Offset(st, p[1], p[2], p[3], p[4], p[5]) THEN One ELSE 0]

(* the coefficient with which input[p] enters output[q] in shift_forward  *)
(* on this input layout: forward is linear in the input, so it is the     *)
(* output at q for the unit input at p                                    *)
ForwardCoefficient(q, p, garbage) ==
    KernelValue(UsedVariant, UnitBuffer(input_strides, p), input_strides,
                active_flag, q, garbage)

(* C11: the returned input gradient is the gradient of shift_forward with *)
(* respect to the input: grad_input[p] is the sum over q of               *)
(* grad_output[q] times the coefficient of input[p] in output[q].         *)
C11_GradInputIsAdjoint ==
    BwdDone =>
        \A p \in Coords(sizes) : \A garbage \in Uninitialised :
            OutGradAt(p) =
                SetSum([q \in Coords(sizes) |->
                           FMul(GradAt(q), ForwardCoefficient(q, p, garbage))],
                       Coords(sizes))

(* what the work item index adds to the shift gradient: the kernel run on *)
(* a zeroed accumulator                                                    *)
ItemContribution(index, garbage) ==
    (IF channels_last_path
     THEN backward_item_nhwdc(index, zeros(sizes), zeros_like(weights), garbage)
     ELSE backward_item_nchwd(index, zeros(sizes), zeros_like(weights), garbage)
    ).weights_grad

WorkItems == 0..(parallel_total - 1)

(* C12: when the call returns, every (channel, axis) slot of the shift    *)
(* gradient equals the sum of the contributions of all work items, for    *)
(* every interleaving of the threads: none is lost or counted twice.      *)
C12_AccumulationComplete ==
    BwdDone =>
        \A o \in DOMAIN weights_grad : \A garbage \in Uninitialised :
            weights_grad[o] =
                SetSum([index \in WorkItems |-> ItemContribution(index, garbage)[o]],
                       WorkItems)

C12_Witness ==
    /\ BwdDone /\ nD = 1 /\ sizes.H = 2 /\ padding_mode = Zeros
    /\ ItemContribution(0, 0)[0] # 0 /\ ItemContribution(1, 0)[0] # 0
    /\ weights_grad[0] = ItemContribution(0, 0)[0] + ItemContribution(1, 0)[0]
    /\ weights_grad[0] # 0

(* axis 1, and the further axes of the rank whose extent exceeds 1 *)
ActiveAxis(axis) == axis = 1 \/ (axis <= nD /\ Extent(axis) > 1)

(* the channel's integer shift handed to the kernel, 0 on inactive axes *)
IntShift(c, axis) == IF ActiveAxis(axis) THEN iweights[c * nD + (axis - 1)] ELSE 0

(* the channel's fractional offset w - floor(w), 0 on inactive axes *)
FracShift(c, axis) ==
    IF ActiveAxis(axis)
    THEN weights[c * nD + (axis - 1)] - torch_floor(weights[c * nD + (axis - 1)])
    ELSE 0

(* the upstream gradient as a logical tensor, for the sampler *)
LogicalGrad(n, c) ==
    [buf |-> GradBuffer(sizes, ContiguousStrides(sizes)),
     off |-> Offset(ContiguousStrides(sizes), n, c, 0, 0, 0)]

(* the input gradient at p by the rule: the interpolation of the gradient *)
(* corners at coord - shift with the channel's fractional offsets, or the *)
(* gradient value at coord + shift                                        *)
InputGradientRule(p) ==
    LET c == p[2]
        st == KernelStrides(nD, ContiguousStrides(sizes))
    IN  IF active_flag
        THEN compute_interpolated(
                 get_shifted_values(p[3] - IntShift(c, 1), sizes.H, st.sH,
                                    p[4] - IntShift(c, 2), sizes.W, st.sW,
                                    p[5] - IntShift(c, 3), sizes.D, st.sD,
                                    0, 0, LogicalGrad(p[1], c), 0, padding_mode,
                                    ZeroVals),
                 FracShift(c, 1), FracShift(c, 2), FracShift(c, 3),
                 sizes.H, sizes.W, sizes.D)
        ELSE get_shifted_value(p[3] + IntShift(c, 1), sizes.H, st.sH,
                               p[4] + IntShift(c, 2), sizes.W, st.sW,
                               p[5] + IntShift(c, 3), sizes.D, st.sD,
                               0, 0, LogicalGrad(p[1], c), 0, padding_mode)

(* C15: every element of the returned input gradient follows the rule:    *)
(* active, the N-linear interpolation with the channel's fractional       *)
(* offsets of the upstream-gradient corners at coord - shift; inactive,   *)
(* the upstream-gradient value at coord + shift, 0 when invalid.          *)
C15_InputGradientRule ==
    BwdDone => \A p \in Coords(sizes) : OutGradAt(p) = InputGradientRule(p)

(* the original input as a logical tensor, for the sampler *)
LogicalInput(n, c) ==
    [buf |-> TensorBuffer(sizes, ContiguousStrides(sizes)),
     off |-> Offset(ContiguousStrides(sizes), n, c, 0, 0, 0)]

(* the partial derivative of the interpolation at coordinate p with       *)
(* respect to the fractional offset of the axis: the input corners at     *)
(* coord - shift, the channel's fractional offsets on the other axes      *)
ShiftDerivative(p, axis) ==
    LET c == p[2]
        st == KernelStrides(nD, ContiguousStrides(sizes))
        v == get_shifted_values(p[3] - IntShift(c, 1), sizes.H, st.sH,
                                p[4] - IntShift(c, 2), sizes.W, st.sW,
                                p[5] - IntShift(c, 3), sizes.D, st.sD,
                                0, 0, LogicalInput(p[1], c), 0, padding_mode,
                                ZeroVals)
        x == FracShift(c, 1)
        y == FracShift(c, 2)
        z == FracShift(c, 3)
    IN  IF sizes.D > 1
        THEN IF axis = 1
             THEN interp3D_dx(v[0], v[1], v[2], v[3], v[4], v[5], v[6], v[7], y, z)
             ELSE IF axis = 2
             THEN interp3D_dy(v[0], v[1], v[2], v[3], v[4], v[5], v[6], v[7], x, z)
             ELSE interp3D_dz(v[0], v[1], v[2], v[3], v[4], v[5], v[6], v[7], x, y)
        ELSE IF sizes.W > 1
        THEN IF axis = 1 THEN interp2D_dx(v[0], v[1], v[2], v[3], y)
             ELSE interp2D_dy(v[0], v[1], v[2], v[3], x)
        ELSE interp1D_dx(v[0], v[1])

CoordsOfChannel(c) == {p \in Coords(sizes) : p[2] = c}

(* C16: each (channel, axis) slot of the shift gradient holds the sum,    *)
(* over the coordinates of the channel, of the upstream gradient at the   *)
(* coordinate times the partial derivative of the interpolation of the    *)
(* re-sampled input with respect to that axis's fractional offset; slots  *)
(* of axes beyond axis-1 with extent 1 hold no contribution.              *)
C16_ShiftGradientRule ==
    BwdDone =>
        \A c \in 0..(sizes.C - 1) : \A axis \in 1..nD :
            WeightsGradAt(c, axis) =
                IF ActiveAxis(axis)
                THEN SetSum([p \in CoordsOfChannel(c) |->
                                FMul(GradAt(p), ShiftDerivative(p, axis))],
                            CoordsOfChannel(c))
                ELSE 0

----------------------------------------------------------------------------
(* Entry-point claims *)

(* weights.size(0) differs from input.size(1) *)
ChannelMismatch == Cardinality(DOMAIN weights) # sizes.C * nD

NothingWritten == \A q \in DOMAIN writers : writers[q] = <<>>

(* C13: when the weights' channel count differs from the input's channel  *)
(* extent, the call stops at its entry: no kernel work item runs and no    *)
(* output element is written.                                              *)
C13_PreconditionFailFast ==
    ChannelMismatch =>
        \/ pc = "fwd_call"
        \/ /\ pc = "fwd_run"
           /\ \A t \in 1..NumThreads : pos[t] = chunk_begin(t)
           /\ NothingWritten

----------------------------------------------------------------------------
(* Shift splitting claims *)

(* the kernel loop of a forward or backward call has its arguments *)
KernelArgumentsHanded == pc \in {"fwd_run", "bwd_run"}

(* C17: when active_flag is false, the fractional part handed to the      *)
(* kernel is zero for every (channel, axis), in forward and in backward.  *)
C17_FractionZeroWhenInactive ==
    (KernelArgumentsHanded /\ ~active_flag) =>
        /\ DOMAIN dweights = DOMAIN weights
        /\ \A o \in DOMAIN weights : dweights[o] = 0

(* integer part + fractional part = the shift, fractional part in [0, 1) *)
Reconstructs(o) ==
    /\ iweights[o] * One + dweights[o] = weights[o]
    /\ 0 <= dweights[o] /\ dweights[o] < One

----------------------------------------------------------------------------
(* Quantized forward claims *)

QDone == pc = "q_done"

(* int_weight - weights_zero_point on axis 1 and on the other axes whose  *)
(* extent exceeds 1; 0 on the others                                      *)
QuantShift(c, axis) ==
    IF axis = 1 \/ (axis <= nD /\ Extent(axis) > 1)
    THEN iweights[c * nD + (axis - 1)] - q_weights_zero_point
    ELSE 0

(* C14: every output element of either quantized kernel is the input read *)
(* at coord - (int_weight - weights_zero_point) on each active axis, by    *)
(* direct index resolution, and the input zero point when an axis resolves *)
(* to invalid.                                                             *)
C14_QuantizedForward ==
    QDone =>
        \A p \in Coords(sizes) :
            LET r1 == infer_index(p[3] - QuantShift(p[2], 1), sizes.H, padding_mode)
                r2 == infer_index(p[4] - QuantShift(p[2], 2), sizes.W, padding_mode)
                r3 == infer_index(p[5] - QuantShift(p[2], 3), sizes.D, padding_mode)
            IN  OutputAt(p) = IF r1 = -1 \/ r2 = -1 \/ r3 = -1 THEN q_zero_point
                              ELSE InputAt(<<p[1], p[2], r1, r2, r3>>)

C14_Witness ==
    /\ QDone /\ padding_mode = Zeros /\ q_zero_point = One + 1
    /\ q_weights_zero_point = 1 /\ nD = 2 /\ sizes = FullCube(2)
    /\ iweights[0] = 2 /\ iweights[1] = 1
    /\ OutputAt(<<0, 0, 0, 1, 0>>) = q_zero_point
    /\ OutputAt(<<0, 0, 1, 1, 0>>) = InputAt(<<0, 0, 0, 1, 0>>)

----------------------------------------------------------------------------
(* Write claims *)

CallRunning == pc \in {"fwd_run", "bwd_run", "cuda_fwd_run", "cuda_bwd_run"}
CallDone == pc \in {"fwd_done", "bwd_done", "cuda_fwd_done", "cuda_bwd_done"}

(* the slots of writers that stand for the elements of the result buffer *)
ResultElements == 1..Numel(sizes)

(* no element has two stores, and no store falls outside the buffer *)
WritesDisjoint ==
    /\ \A q \in ResultElements : Len(writers[q]) <= 1
    /\ writers[Numel(sizes) + 1] = <<>>

WritesComplete == \A q \in ResultElements : Len(writers[q]) = 1

(* a step leaves the input, the weights and the upstream gradient alone *)
ReadOnlyBuffers == input' = input /\ weights' = weights /\ grad' = grad

(* C19: in forward and backward, CPU chunks or CUDA grid stride, under    *)
(* every interleaving no element of the result buffer (output, resp.      *)
(* input gradient) is stored to twice, when the call returns every        *)
(* element has been stored to exactly once, and no step writes the input, *)
(* the weights or the upstream gradient.                                  *)
C19_DisjointCompleteWrites ==
    /\ []((CallRunning \/ CallDone) => WritesDisjoint)
    /\ [](CallDone => WritesComplete)
    /\ [][ReadOnlyBuffers]_vars

(* a grid-stride backward call whose two threads each ran two work items, *)
(* all four adding to the same accumulator slot                           *)
C19_Witness ==
    /\ pc = "cuda_bwd_done" /\ nD = 2 /\ sizes = FullCube(2)
    /\ writers = <<<<0>>, <<1>>, <<2>>, <<3>>, <<>>>>
    /\ pos = <<4, 5>>
    /\ weights_grad[0] # 0

----------------------------------------------------------------------------
(* Read claims *)

(* the coordinates (n, c, i, j, k) of the work item that computes the     *)
(* element p                                                              *)
ForwardCalls(p) ==
    forward_item_calls(iweights, p[2], p[3], p[4], p[5],
                       sizes.H, IF nD < 2 THEN 1 ELSE sizes.W,
                       IF nD < 3 THEN 1 ELSE sizes.D, nD, 1, active_flag)

(* each index the sampler resolves is inside [0, extent) or the sentinel *)
ResolvedInside(calls) ==
    \A call \in calls :
        infer_index(call[1], call[2], padding_mode) \in -1..(call[2] - 1)

(* the value stored for p does not depend on memory the call never wrote *)
ForwardDefined(p) ==
    \A g1, g2 \in Uninitialised :
        KernelValue(UsedVariant, input, input_strides, active_flag, p, g1)
          = KernelValue(UsedVariant, input, input_strides, active_flag, p, g2)

BackwardItem(index, garbage) ==
    IF channels_last_path
    THEN backward_item_nhwdc(index, zeros(sizes), zeros_like(weights), garbage)
    ELSE backward_item_nchwd(index, zeros(sizes), zeros_like(weights), garbage)

BackwardDefined(index) ==
    \A g1, g2 \in Uninitialised :
        BackwardItem(index, g1).output_grad = BackwardItem(index, g2).output_grad

(* C20: for every shift, padding mode and extent the sampler resolves     *)
(* each axis to an index inside [0, extent) or returns the fill value,    *)
(* so every element of the forward output and of the backward input       *)
(* gradient gets a defined value: one that does not depend on memory      *)
(* outside the source buffer.                                             *)
C20_DefinedOutputs ==
    /\ pc \in {"fwd_run", "fwd_done"} =>
           \A p \in Coords(sizes) : ResolvedInside(ForwardCalls(p)) /\ ForwardDefined(p)
    /\ pc \in {"bwd_run", "bwd_done"} =>
           \A index \in WorkItems : BackwardDefined(index)

----------------------------------------------------------------------------
(* Sampler claims *)

(* the number of spatial axes with extent > 1, axis 1 included *)
AxesAboveOne ==
    BoolToInt(sizes.H > 1) + BoolToInt(sizes.W > 1) + BoolToInt(sizes.D > 1)

RECURSIVE TwoTo(_)
TwoTo(k) == IF k = 0 THEN 1 ELSE 2 * TwoTo(k - 1)

(* C21: in an interpolating call get_shifted_values gathers exactly 2^k   *)
(* corners, k the number of spatial axes (axis 1 included) with extent    *)
(* above 1, so an axis of extent 1 has no coordinate+1 sample and a       *)
(* one-element axis keeps its value whatever the fractional shift.        *)
C21_InactiveAxesNoBranching ==
    (FwdDone /\ active_flag) =>
        /\ Cardinality(get_shifted_values_corners(sizes.H, sizes.W, sizes.D))
              = TwoTo(AxesAboveOne)
        /\ (sizes.H = 1 /\ sizes.W = 1 /\ sizes.D = 1) =>
               \A p \in Coords(sizes) : OutputAt(p) = InputAt(p)

(* the corner array that the interpolating forward kernel gathers for the *)
(* element p, from an array initialised with the fill value               *)
GatheredCorners(p) ==
    LET st == KernelStrides(nD, input_strides)
    IN  get_shifted_values(p[3] - IntShift(p[2], 1), sizes.H, st.sH,
                           p[4] - IntShift(p[2], 2), sizes.W, st.sW,
                           p[5] - IntShift(p[2], 3), sizes.D, st.sD,
                           0, 0,
                           [buf |-> input, off |-> p[1] * st.sN + p[2] * st.sC],
                           0, padding_mode, ZeroVals)

(* the input at base + (a1, a2, a3) for the element p, the fill value 0   *)
(* when an axis resolves to invalid                                       *)
CornerSample(p, a1, a2, a3) ==
    LET r1 == infer_index(p[3] - IntShift(p[2], 1) + a1, sizes.H, padding_mode)
        r2 == infer_index(p[4] - IntShift(p[2], 2) + a2, sizes.W, padding_mode)
        r3 == infer_index(p[5] - IntShift(p[2], 3) + a3, sizes.D, padding_mode)
    IN  IF r1 = -1 \/ r2 = -1 \/ r3 = -1 THEN 0
        ELSE InputAt(<<p[1], p[2], r1, r2, r3>>)

(* the slot a1 + 2*a2 + 4*a3 belongs to an axis of extent 1 *)
SlotOfInactiveAxis(a1, a2, a3) ==
    \/ a1 = 1 /\ sizes.H = 1
    \/ a2 = 1 /\ sizes.W = 1
    \/ a3 = 1 /\ sizes.D = 1

(* C22: slot a1 + 2*a2 + 4*a3 of the corner array holds the sample at     *)
(* base + (a1, a2, a3), the fill value when an axis resolves to invalid;  *)
(* a slot that belongs to an axis of extent 1 keeps the fill value it was *)
(* initialised with.                                                      *)
C22_CornerOrdering ==
    (FwdDone /\ active_flag) =>
        \A p \in Coords(sizes) : \A a1, a2, a3 \in {0, 1} :
            GatheredCorners(p)[a1 + 2 * a2 + 4 * a3] =
                IF SlotOfInactiveAxis(a1, a2, a3) THEN 0
                ELSE CornerSample(p, a1, a2, a3)

----------------------------------------------------------------------------
(* Call sequence claims *)

JustEntered == \A t \in 1..NumThreads : pos[t] = chunk_begin(t)

AllZero(buf) == \A o \in DOMAIN buf : buf[o] = 0

(* the work item index of a backward call run on zeroed result buffers *)
FreshItem(index, garbage) ==
    IF channels_last_path
    THEN backward_item_nhwdc(index, zeros(sizes), [o \in DOMAIN weights |-> 0], garbage)
    ELSE backward_item_nchwd(index, zeros(sizes), [o \in DOMAIN weights |-> 0], garbage)

ItemOffsets(index) ==
    {backward_item_writes(index)[m] : m \in DOMAIN backward_item_writes(index)}

(* the results are those of the same call made on its own *)
ForwardResultFromArguments ==
    \A p \in Coords(sizes) : \A garbage \in Uninitialised :
        OutputAt(p) = KernelValue(UsedVariant, input, input_strides, active_flag,
                                  p, garbage)

BackwardResultFromArguments ==
    /\ \A o \in DOMAIN weights_grad : \A garbage \in Uninitialised :
           weights_grad[o] =
               SetSum([index \in WorkItems |-> FreshItem(index, garbage).weights_grad[o]],
                      WorkItems)
    /\ \A index \in WorkItems : \E garbage \in Uninitialised :
           \A o \in ItemOffsets(index) :
               out_grad[o] = FreshItem(index, garbage).output_grad[o]

CallState ==
    /\ pc \in {"fwd_run", "bwd_run"} =>
           /\ iweights = split_iweights(weights, active_flag)
           /\ pc = "bwd_run" => dweights = split_dweights_backward(weights)
    /\ (pc = "fwd_run" /\ JustEntered) => AllZero(output)
    /\ (pc = "bwd_run" /\ JustEntered) => AllZero(out_grad) /\ AllZero(weights_grad)
    /\ pc = "fwd_done" => ForwardResultFromArguments
    /\ pc = "bwd_done" => BackwardResultFromArguments

(* C23: in a sequence of forward and backward calls, every call starts    *)
(* from zeroed result buffers and freshly split weights, what it returns  *)
(* is what the same call returns when made on its own (grad_weights holds *)
(* nothing of an earlier call), and no step changes the caller's weights. *)
C23_NoStateBetweenCalls == [](CallState) /\ [][weights' = weights]_vars

(* a backward call that follows a backward call (no forward call has run: *)
(* output was never allocated) and returns a non-zero shift gradient      *)
C23_Witness ==
    /\ calls_made = 1 /\ pc = "bwd_done" /\ output = <<>>
    /\ weights_grad[0] # 0
    /\ BackwardResultFromArguments

----------------------------------------------------------------------------
(* Non-determinism alert *)

BackwardOnCpu == pc \in {"bwd_run", "bwd_done"}

BackwardOnCuda == pc \in {"cuda_bwd_run", "cuda_bwd_done"}

(* the work items a worker of the running backward call is given *)
ItemsOfWorker(t) ==
    IF BackwardOnCpu
    THEN chunk_begin(t)..(chunk_end(t) - 1)
    ELSE {index \in 0..(count - 1) : index % grid_stride = grid_start(t)}

(* the channels whose shift-gradient slots the work item index adds to *)
ChannelsOfItem(index) ==
    IF BackwardOnCpu /\ channels_last_path
    THEN 0..(sizes.C - 1)
    ELSE {(index \div (sizes.H * sizes.W * sizes.D)) % sizes.C}

(* two workers of the call add into the same slot of weights_grad *)
ConcurrentAccumulation ==
    \E t1, t2 \in 1..NumThreads :
        /\ t1 # t2
        /\ \E i1 \in ItemsOfWorker(t1), i2 \in ItemsOfWorker(t2) :
               ChannelsOfItem(i1) \cap ChannelsOfItem(i2) # {}

(* C24: whenever the kernel of a backward call whose shift gradient is    *)
(* accumulated by concurrent workers is running or has returned, the call *)
(* has raised the non-determinism alert (it is raised first, before any   *)
(* check or launch).                                                      *)
C24_AlertBeforeBackward ==
    ((BackwardOnCpu \/ BackwardOnCuda) /\ ConcurrentAccumulation) => alerted

----------------------------------------------------------------------------
(* Index width *)

(* C25: with the narrow index type selected and a shift of magnitude at   *)
(* most the extent, no value of the index computations of a work item     *)
(* (decomposition of the linear index, i - shift, the next corner, the    *)
(* folding of infer_index) leaves the index type, and the resolved index  *)
(* is the one computed with unbounded integers.                           *)
C25_NarrowIndexNoOverflow ==
    (pc = "k32_done") =>
        /\ ~k32_overflowed
        /\ ret = infer_index(k32_coord - k32_shift + k32_corner, sizes.H, mode)

----------------------------------------------------------------------------
(* Backward of the two kernel variants *)

VariantItems(variant) ==
    IF variant = "nhwdc" THEN Numel(sizes) \div sizes.C ELSE Numel(sizes)

(* the result buffers after the first m work items of the loop of variant, *)
(* started from zeroed buffers                                             *)
RECURSIVE BackwardRun(_, _, _)
BackwardRun(variant, m, garbage) ==
    IF m = 0
    THEN [output_grad |-> zeros(sizes), weights_grad |-> [o \in DOMAIN weights |-> 0]]
    ELSE LET before == BackwardRun(variant, m - 1, garbage)
         IN  IF variant = "nhwdc"
             THEN backward_item_nhwdc(m - 1, before.output_grad, before.weights_grad,
                                      garbage)
             ELSE backward_item_nchwd(m - 1, before.output_grad, before.weights_grad,
                                      garbage)

BackwardOf(variant, garbage) == BackwardRun(variant, VariantItems(variant), garbage)

(* C26: for a gradient laid out as the input, the backward call returns   *)
(* the grad_input and the grad_weights that the loop of the other kernel  *)
(* variant computes from the same tensors, padding mode and active flag.  *)
C26_BackwardLayoutEquivalence ==
    (pc = "bwd_done" /\ grad_strides = input_strides) =>
        \A garbage \in Uninitialised :
            /\ out_grad = BackwardOf(OtherVariant, garbage).output_grad
            /\ weights_grad = BackwardOf(OtherVariant, garbage).weights_grad

----------------------------------------------------------------------------
(* Reads of the upstream gradient *)

(* the samples of the gradient the kernels take for the coordinate p:     *)
(* coord - shift and its corners when active, coord + shift otherwise     *)
GradSamples(p) ==
    LET sizeW == IF nD < 2 THEN 1 ELSE sizes.W
        sizeD == IF nD < 3 THEN 1 ELSE sizes.D
        shifts == read_shifts(iweights, p[2], sizeW, sizeD, nD, 1)
    IN  IF active_flag
        THEN {<<p[3] - shifts[1] + b[1], p[4] - shifts[2] + b[2], p[5] - shifts[3] + b[3]>> :
                 b \in get_shifted_values_corners(sizes.H, sizeW, sizeD)}
        ELSE {<<p[3] + shifts[1], p[4] + shifts[2], p[5] + shifts[3]>>}

(* the offset the kernel reads for the sample s of the coordinate p: the  *)
(* channel-major kernel passes the pointer input_grad_NC and channel 0,   *)
(* the channel-last kernel input_grad_N and the channel with its stride   *)
GradReadOffset(p, s) ==
    LET sizeW == IF nD < 2 THEN 1 ELSE sizes.W
        sizeD == IF nD < 3 THEN 1 ELSE sizes.D
        input_grad_s == KernelStrides(nD, grad_strides)
        input_s == KernelStrides(nD, input_strides)
    IN  IF channels_last_path
        THEN get_shifted_value_offset(s[1], sizes.H, input_s.sH, s[2], sizeW, input_s.sW,
                                      s[3], sizeD, input_s.sD, p[2], input_grad_s.sC,
                                      [buf |-> grad, off |-> p[1] * input_grad_s.sN],
                                      padding_mode)
        ELSE get_shifted_value_offset(s[1], sizes.H, input_s.sH, s[2], sizeW, input_s.sW,
                                      s[3], sizeD, input_s.sD, 0, 0,
                                      [buf |-> grad,
                                       off |-> p[1] * input_grad_s.sN
                                                 + p[2] * input_grad_s.sC],
                                      padding_mode)

(* the offset of the element of the gradient at the logical position that *)
(* the sample resolves to                                                 *)
GradLogicalOffset(p, s) ==
    LET sizeW == IF nD < 2 THEN 1 ELSE sizes.W
        sizeD == IF nD < 3 THEN 1 ELSE sizes.D
    IN  Offset(KernelStrides(nD, grad_strides), p[1], p[2],
               infer_index(s[1], sizes.H, padding_mode),
               infer_index(s[2], sizeW, padding_mode),
               infer_index(s[3], sizeD, padding_mode))

(* C27: every element of the upstream gradient that a backward work item  *)
(* reads for the input gradient is the element at the logical position of *)
(* the sample (coord - shift when active, coord + shift otherwise),       *)
(* whatever the strides of the gradient and of the input are.             *)
C27_GradReadAtLogicalCoordinates ==
    (pc = "bwd_run") =>
        \A p \in Coords(sizes) : \A s \in GradSamples(p) :
            (GradReadOffset(p, s) # -1) =>
                (GradReadOffset(p, s) = GradLogicalOffset(p, s))

----------------------------------------------------------------------------
(* Bounds of the local arrays and of the weight buffers *)

ArrayAccessesOfCall ==
    kernel_array_accesses(UsedVariant, pc = "bwd_run", active_flag, sizes.H,
                          IF nD < 2 THEN 1 ELSE sizes.W, IF nD < 3 THEN 1 ELSE sizes.D)

WeightReadsOfCall ==
    kernel_weight_reads(UsedVariant, pc = "bwd_run", active_flag,
                        IF nD < 2 THEN 1 ELSE sizes.W, IF nD < 3 THEN 1 ELSE sizes.D)

SubscriptsInside == \A a \in ArrayAccessesOfCall : a.index < array_capacity(a.array)

WeightReadsInside ==
    \A r \in WeightReadsOfCall :
        /\ r.axis < nD
        /\ (r.axis = 1) => (sizes.W > 1)
        /\ (r.axis = 2) => (sizes.D > 1)

(* C28: while a forward or backward kernel runs, every subscript on its   *)
(* local arrays shifts, dshifts, _new_weights_grad (3 slots each) and     *)
(* _vals_array (8 slots) is below the capacity, and every read of the     *)
(* weight buffers is at an axis below the rank, axis 2 and axis 3 only    *)
(* when their extent is greater than 1.                                   *)
C28_SmallArrayBounds ==
    (pc \in {"fwd_run", "bwd_run"}) => (SubscriptsInside /\ WeightReadsInside)

====
